---- MODULE Spec2Model ----
(***************************************************************************)
(* Model of the Donizo material scraper.                                   *)
(*                                                                         *)
(*   SpecDedup : DataProcessor.remove_duplicates and                       *)
(*               DataProcessor.process_products_batch as pure functions    *)
(*               (src/utils/data_processor.py)                             *)
(*   SpecOM    : OutputManager.initialize_session_files and                *)
(*               OutputManager.append_products_to_session called as an API *)
(*               (src/utils/logger.py)                                     *)
(*   SpecPar   : run_scrapers_parallel.main, its three worker threads and  *)
(*               their page loops (src/run_scrapers_parallel.py,           *)
(*               src/scrapers/*.py)                                        *)
(*   SpecRun   : DonizoMaterialScraper.run and the scraper each pass of    *)
(*               its loop builds and runs (src/scraper.py)                 *)
(*                                                                         *)
(* Python strings whose characters matter (product_url, product_name) are  *)
(* sequences of one-character strings; Python dicts are functions whose    *)
(* DOMAIN is the set of keys.                                              *)
(***************************************************************************)
EXTENDS Integers, Sequences, FiniteSets, TLC

VARIABLES
    \* ---- SpecDedup
    dd_in,          \* the list handed to remove_duplicates / process_products_batch
    dd_out,         \* the list returned ("none" before the call)
    dd_op,          \* which function was applied
    data_processor, \* the DataProcessor: self.price_currency, self.measurement_unit
    \* ---- session files (SpecOM, SpecPar)
    jsonFiles,      \* data_dir: file key -> content of the session JSON file
    csvFiles,       \* data_dir: file key -> content of the session CSV file
    om_last,        \* SpecOM: the last OutputManager call and its outcome
    \* ---- SpecPar
    mpc,            \* position of main()
    wpc,            \* position of each worker thread
    wsid,           \* scraper.session_id of each worker
    wkeywords,      \* the keywords handed to scraper.run of each worker
    wkw,            \* index of the keyword a worker is scraping
    wlink,          \* the listing URL of the keyword a worker is paging through
    wpage,          \* page counter of the worker's loop
    wbatch,         \* products parsed from the current page
    wdata,          \* `data` read by append_products_to_session
    all_products,   \* scraper.all_products of each worker
    committed,      \* products of the batches written to the session JSON file
    reported,       \* number of errors a worker logged
    crashed,        \* the process was killed
    faults,         \* failures of the file system, the network and the pages so far
    \* ---- SpecRun
    rpc,            \* position of DonizoMaterialScraper.run
    r_suppliers,    \* the suppliers argument
    r_idx,          \* index of the supplier being scraped
    r_calls,        \* the scrape_supplier calls made: supplier, raised?, raw records
    r_log,          \* contexts of the main logger's log_error calls made by run()
    stats,          \* self.stats
    run_products,   \* all_products of run()
    by_supplier,    \* all_data_by_supplier of run()
    consolidated,   \* the consolidated dataset written by _save_results
    summary         \* what _log_summary logged ("none" before)

ddVars  == <<dd_in, dd_out, dd_op, data_processor>>
omVars  == <<om_last>>
parVars == <<mpc, wpc, wsid, wkeywords, wkw, wlink, wpage, wbatch, wdata, all_products, committed,
             reported, crashed, faults>>
runVars == <<rpc, r_suppliers, r_idx, r_calls, r_log, stats, run_products,
             by_supplier, consolidated, summary>>
fileVars == <<jsonFiles, csvFiles>>
vars    == <<ddVars, fileVars, omVars, parVars, runVars>>

(***************************************************************************)
(* Bounds of the model.                                                    *)
(***************************************************************************)
MaxList == 2        \* longest product list handed to the pure functions
MaxKeywords == 1    \* keywords of its list a worker scrapes
MaxLinks == 1       \* most listing URLs a category page gives for a keyword
MaxCollected == 3   \* most products the three workers collect in a run
MaxPages == 2       \* pages of one keyword that can yield products
MaxPageProducts == 2 \* most products product_parser returns for a page
MaxFaults == 1      \* most failures of the environment in a run
MaxBatch == 2       \* longest batch handed to append_products_to_session
MaxFileLen == 2     \* most products a session file holds in SpecOM
MaxCsvLines == 3    \* most lines a session CSV file holds in SpecOM
MaxSaved == 1       \* longest list handed to the save_scraper_data* methods
MaxCalls == 4       \* most OutputManager calls of the client of SpecOM
MaxImages == 3      \* longest image list of a raw record
MaxBrandLen == 3    \* longest of the generated brand strings
MaxPriceLen == 5    \* longest price string handed to normalize_price

(***************************************************************************)
(* Strings and dicts.                                                      *)
(***************************************************************************)
\* {}
EmptyDict == [k \in {} |-> <<>>]

\* dict.get(key, default)
Get(d, k, default) == IF k \in DOMAIN d THEN d[k] ELSE default

RECURSIVE SeqsUpTo(_, _)
SeqsUpTo(S, n) == IF n = 0 THEN {<<>>}
                  ELSE SeqsUpTo(S, n - 1) \cup
                       {Append(s, x) : s \in {t \in SeqsUpTo(S, n - 1) : Len(t) = n - 1}, x \in S}

Range(s) == {s[i] : i \in 1..Len(s)}

\* F(value), with value computed once
With(value, F(_)) == CHOOSE y \in {F(x) : x \in {value}} : TRUE

\* str.replace(a, b) for a one-character a and a string b
RECURSIVE Replace(_, _, _)
Replace(s, a, b) == IF s = <<>> THEN <<>>
                    ELSE (IF Head(s) = a THEN b ELSE <<Head(s)>>) \o Replace(Tail(s), a, b)

\* str.rfind(c), 1-based, 0 when c does not occur
RFind(s, c) == IF c \in Range(s) THEN CHOOSE i \in 1..Len(s) :
                    s[i] = c /\ \A j \in (i + 1)..Len(s) : s[j] # c
               ELSE 0

Count(s, c) == Cardinality({i \in 1..Len(s) : s[i] = c})

\* ''.join(chars)
RECURSIVE JoinChars(_)
JoinChars(chars) == IF chars = <<>> THEN "" ELSE Head(chars) \o JoinChars(Tail(chars))

(***************************************************************************)
(* src/utils/data_processor.py                                             *)
(***************************************************************************)
\* Python None as a configuration (yaml.safe_load of an empty file)
PyNone == [t |-> "none", v |-> EmptyDict]

\* DataProcessor.__init__: self.config = config or {}, and the two settings read
\* from its data_processing section
DataProcessorInit(config) ==
    LET c  == IF config.t = "none" THEN EmptyDict ELSE config.v
        dp == Get(c, "data_processing", EmptyDict)
    IN  [price_currency   |-> Get(dp, "price_currency", "EUR"),
         measurement_unit |-> Get(dp, "measurement_unit", "cm")]

\* hashlib.md5(text.encode()).hexdigest()[:8] of the URLs of the model
Md5Table ==
    ("" :> <<"d", "4", "1", "d", "8", "c", "d", "9">>) @@
    ("a" :> <<"0", "c", "c", "1", "7", "5", "b", "9">>) @@
    ("_" :> <<"b", "1", "4", "a", "7", "b", "8", "0">>) @@
    ("a_" :> <<"5", "7", "6", "e", "0", "9", "d", "1">>) @@
    ("_a" :> <<"5", "c", "8", "5", "5", "e", "0", "9">>) @@
    ("https://www.castorama.fr/Peinture/1/1/1" :> <<"7", "c", "5", "3", "f", "e", "9", "f">>) @@
    ("https://www.castorama.fr/Peinture/1/1/2" :> <<"b", "4", "c", "8", "6", "6", "4", "3">>) @@
    ("https://www.castorama.fr/Peinture/1/1/3" :> <<"b", "2", "b", "0", "2", "e", "d", "8">>) @@
    ("https://www.castorama.fr/Peinture/1/2/1" :> <<"1", "3", "0", "9", "7", "3", "d", "3">>) @@
    ("https://www.castorama.fr/Peinture/1/2/2" :> <<"4", "3", "b", "a", "3", "8", "f", "f">>) @@
    ("https://www.castorama.fr/Peinture/1/2/3" :> <<"3", "1", "a", "b", "c", "6", "e", "1">>) @@
    ("https://www.castorama.fr/Peinture/1/3/1" :> <<"6", "3", "a", "1", "4", "3", "0", "d">>) @@
    ("https://www.castorama.fr/Peinture/1/3/2" :> <<"5", "0", "1", "e", "5", "5", "9", "f">>) @@
    ("https://www.castorama.fr/Peinture/1/3/3" :> <<"f", "1", "5", "9", "1", "a", "7", "d">>) @@
    ("https://www.castorama.fr/Peinture/2/1/1" :> <<"c", "3", "5", "7", "0", "a", "0", "5">>) @@
    ("https://www.castorama.fr/Peinture/2/1/2" :> <<"0", "3", "4", "f", "6", "c", "e", "8">>) @@
    ("https://www.castorama.fr/Peinture/2/1/3" :> <<"0", "6", "0", "7", "f", "8", "a", "b">>) @@
    ("https://www.castorama.fr/Peinture/2/2/1" :> <<"a", "8", "b", "9", "7", "8", "f", "f">>) @@
    ("https://www.castorama.fr/Peinture/2/2/2" :> <<"2", "1", "5", "6", "6", "7", "d", "2">>) @@
    ("https://www.castorama.fr/Peinture/2/2/3" :> <<"2", "4", "4", "9", "4", "a", "7", "b">>) @@
    ("https://www.castorama.fr/Peinture/2/3/1" :> <<"8", "9", "1", "1", "2", "8", "7", "e">>) @@
    ("https://www.castorama.fr/Peinture/2/3/2" :> <<"4", "7", "2", "e", "f", "1", "e", "a">>) @@
    ("https://www.castorama.fr/Peinture/2/3/3" :> <<"e", "9", "6", "a", "7", "a", "6", "1">>) @@
    ("https://www.castorama.fr/Douches/1/1/1" :> <<"6", "7", "5", "f", "3", "1", "8", "1">>) @@
    ("https://www.castorama.fr/Douches/1/1/2" :> <<"6", "6", "1", "8", "5", "2", "f", "6">>) @@
    ("https://www.castorama.fr/Douches/1/1/3" :> <<"9", "0", "2", "5", "b", "3", "f", "b">>) @@
    ("https://www.castorama.fr/Douches/1/2/1" :> <<"7", "c", "9", "c", "0", "a", "3", "9">>) @@
    ("https://www.castorama.fr/Douches/1/2/2" :> <<"4", "b", "8", "8", "4", "9", "e", "b">>) @@
    ("https://www.castorama.fr/Douches/1/2/3" :> <<"c", "5", "c", "3", "8", "0", "5", "1">>) @@
    ("https://www.castorama.fr/Douches/1/3/1" :> <<"e", "a", "a", "a", "6", "c", "5", "4">>) @@
    ("https://www.castorama.fr/Douches/1/3/2" :> <<"d", "2", "c", "d", "b", "c", "1", "e">>) @@
    ("https://www.castorama.fr/Douches/1/3/3" :> <<"3", "7", "6", "a", "7", "3", "2", "9">>) @@
    ("https://www.castorama.fr/Douches/2/1/1" :> <<"e", "a", "e", "d", "9", "b", "2", "3">>) @@
    ("https://www.castorama.fr/Douches/2/1/2" :> <<"2", "b", "8", "f", "6", "6", "1", "2">>) @@
    ("https://www.castorama.fr/Douches/2/1/3" :> <<"6", "6", "2", "a", "1", "f", "0", "7">>) @@
    ("https://www.castorama.fr/Douches/2/2/1" :> <<"7", "3", "e", "6", "b", "b", "e", "e">>) @@
    ("https://www.castorama.fr/Douches/2/2/2" :> <<"3", "a", "9", "c", "f", "a", "4", "c">>) @@
    ("https://www.castorama.fr/Douches/2/2/3" :> <<"a", "a", "a", "9", "b", "5", "0", "d">>) @@
    ("https://www.castorama.fr/Douches/2/3/1" :> <<"f", "7", "4", "6", "e", "f", "f", "a">>) @@
    ("https://www.castorama.fr/Douches/2/3/2" :> <<"1", "f", "1", "d", "5", "5", "a", "b">>) @@
    ("https://www.castorama.fr/Douches/2/3/3" :> <<"2", "8", "a", "a", "7", "4", "1", "f">>) @@
    ("https://www.leroymerlin.fr/Peinture/1/1/1" :> <<"8", "d", "8", "6", "9", "5", "3", "9">>) @@
    ("https://www.leroymerlin.fr/Peinture/1/1/2" :> <<"9", "0", "2", "6", "b", "e", "1", "3">>) @@
    ("https://www.leroymerlin.fr/Peinture/1/1/3" :> <<"4", "b", "0", "0", "0", "4", "8", "d">>) @@
    ("https://www.leroymerlin.fr/Peinture/1/2/1" :> <<"4", "3", "1", "d", "a", "d", "d", "e">>) @@
    ("https://www.leroymerlin.fr/Peinture/1/2/2" :> <<"9", "8", "3", "7", "3", "d", "d", "3">>) @@
    ("https://www.leroymerlin.fr/Peinture/1/2/3" :> <<"f", "3", "c", "4", "8", "5", "7", "6">>) @@
    ("https://www.leroymerlin.fr/Peinture/1/3/1" :> <<"f", "c", "5", "e", "f", "3", "a", "b">>) @@
    ("https://www.leroymerlin.fr/Peinture/1/3/2" :> <<"0", "8", "b", "d", "f", "f", "f", "8">>) @@
    ("https://www.leroymerlin.fr/Peinture/1/3/3" :> <<"d", "4", "4", "6", "9", "8", "a", "9">>) @@
    ("https://www.leroymerlin.fr/Peinture/2/1/1" :> <<"5", "6", "7", "b", "e", "9", "1", "6">>) @@
    ("https://www.leroymerlin.fr/Peinture/2/1/2" :> <<"6", "7", "e", "3", "6", "2", "7", "e">>) @@
    ("https://www.leroymerlin.fr/Peinture/2/1/3" :> <<"5", "5", "b", "0", "0", "6", "2", "6">>) @@
    ("https://www.leroymerlin.fr/Peinture/2/2/1" :> <<"d", "5", "9", "8", "b", "1", "6", "9">>) @@
    ("https://www.leroymerlin.fr/Peinture/2/2/2" :> <<"1", "d", "7", "5", "4", "d", "9", "4">>) @@
    ("https://www.leroymerlin.fr/Peinture/2/2/3" :> <<"9", "9", "6", "5", "a", "2", "1", "a">>) @@
    ("https://www.leroymerlin.fr/Peinture/2/3/1" :> <<"a", "b", "e", "6", "7", "7", "3", "e">>) @@
    ("https://www.leroymerlin.fr/Peinture/2/3/2" :> <<"2", "3", "3", "d", "6", "4", "e", "1">>) @@
    ("https://www.leroymerlin.fr/Peinture/2/3/3" :> <<"5", "2", "5", "8", "f", "6", "4", "f">>) @@
    ("https://www.leroymerlin.fr/Douches/1/1/1" :> <<"e", "6", "d", "b", "4", "0", "a", "5">>) @@
    ("https://www.leroymerlin.fr/Douches/1/1/2" :> <<"3", "8", "3", "6", "3", "2", "b", "1">>) @@
    ("https://www.leroymerlin.fr/Douches/1/1/3" :> <<"6", "e", "9", "a", "7", "2", "3", "6">>) @@
    ("https://www.leroymerlin.fr/Douches/1/2/1" :> <<"0", "c", "4", "b", "c", "7", "2", "d">>) @@
    ("https://www.leroymerlin.fr/Douches/1/2/2" :> <<"e", "1", "e", "b", "2", "c", "0", "e">>) @@
    ("https://www.leroymerlin.fr/Douches/1/2/3" :> <<"a", "6", "8", "e", "5", "f", "c", "8">>) @@
    ("https://www.leroymerlin.fr/Douches/1/3/1" :> <<"5", "3", "3", "f", "c", "0", "2", "f">>) @@
    ("https://www.leroymerlin.fr/Douches/1/3/2" :> <<"8", "7", "5", "8", "c", "7", "d", "5">>) @@
    ("https://www.leroymerlin.fr/Douches/1/3/3" :> <<"a", "d", "7", "4", "3", "6", "1", "7">>) @@
    ("https://www.leroymerlin.fr/Douches/2/1/1" :> <<"b", "e", "f", "0", "0", "0", "1", "9">>) @@
    ("https://www.leroymerlin.fr/Douches/2/1/2" :> <<"2", "2", "9", "b", "a", "8", "f", "9">>) @@
    ("https://www.leroymerlin.fr/Douches/2/1/3" :> <<"c", "0", "a", "e", "f", "7", "3", "7">>) @@
    ("https://www.leroymerlin.fr/Douches/2/2/1" :> <<"5", "0", "c", "a", "d", "7", "e", "c">>) @@
    ("https://www.leroymerlin.fr/Douches/2/2/2" :> <<"4", "9", "2", "c", "e", "1", "8", "5">>) @@
    ("https://www.leroymerlin.fr/Douches/2/2/3" :> <<"6", "3", "0", "3", "1", "a", "c", "5">>) @@
    ("https://www.leroymerlin.fr/Douches/2/3/1" :> <<"7", "f", "a", "1", "6", "f", "4", "2">>) @@
    ("https://www.leroymerlin.fr/Douches/2/3/2" :> <<"d", "2", "c", "f", "4", "7", "4", "e">>) @@
    ("https://www.leroymerlin.fr/Douches/2/3/3" :> <<"e", "4", "1", "9", "9", "a", "f", "2">>) @@
    ("https://www.manomano.fr/Peinture/1/1/1" :> <<"7", "2", "b", "d", "4", "d", "f", "c">>) @@
    ("https://www.manomano.fr/Peinture/1/1/2" :> <<"0", "0", "f", "f", "a", "f", "c", "d">>) @@
    ("https://www.manomano.fr/Peinture/1/1/3" :> <<"f", "c", "8", "8", "e", "b", "c", "7">>) @@
    ("https://www.manomano.fr/Peinture/1/2/1" :> <<"a", "4", "4", "5", "0", "0", "c", "b">>) @@
    ("https://www.manomano.fr/Peinture/1/2/2" :> <<"c", "9", "b", "c", "f", "7", "f", "7">>) @@
    ("https://www.manomano.fr/Peinture/1/2/3" :> <<"7", "9", "9", "6", "2", "5", "c", "e">>) @@
    ("https://www.manomano.fr/Peinture/1/3/1" :> <<"9", "9", "5", "2", "2", "7", "1", "a">>) @@
    ("https://www.manomano.fr/Peinture/1/3/2" :> <<"a", "d", "1", "7", "3", "4", "6", "2">>) @@
    ("https://www.manomano.fr/Peinture/1/3/3" :> <<"5", "f", "5", "8", "7", "d", "e", "d">>) @@
    ("https://www.manomano.fr/Peinture/2/1/1" :> <<"d", "4", "4", "4", "3", "2", "d", "c">>) @@
    ("https://www.manomano.fr/Peinture/2/1/2" :> <<"d", "b", "4", "e", "c", "9", "3", "0">>) @@
    ("https://www.manomano.fr/Peinture/2/1/3" :> <<"1", "0", "e", "1", "6", "f", "3", "a">>) @@
    ("https://www.manomano.fr/Peinture/2/2/1" :> <<"2", "b", "f", "9", "0", "2", "5", "1">>) @@
    ("https://www.manomano.fr/Peinture/2/2/2" :> <<"d", "f", "2", "8", "6", "a", "b", "7">>) @@
    ("https://www.manomano.fr/Peinture/2/2/3" :> <<"a", "b", "5", "3", "a", "e", "7", "a">>) @@
    ("https://www.manomano.fr/Peinture/2/3/1" :> <<"6", "f", "9", "8", "7", "a", "3", "6">>) @@
    ("https://www.manomano.fr/Peinture/2/3/2" :> <<"1", "5", "3", "0", "e", "5", "1", "b">>) @@
    ("https://www.manomano.fr/Peinture/2/3/3" :> <<"e", "8", "5", "8", "8", "2", "b", "4">>) @@
    ("https://www.manomano.fr/Douches/1/1/1" :> <<"6", "a", "a", "b", "1", "2", "d", "b">>) @@
    ("https://www.manomano.fr/Douches/1/1/2" :> <<"5", "8", "b", "d", "a", "e", "6", "d">>) @@
    ("https://www.manomano.fr/Douches/1/1/3" :> <<"0", "b", "4", "f", "a", "d", "2", "6">>) @@
    ("https://www.manomano.fr/Douches/1/2/1" :> <<"4", "a", "d", "e", "4", "0", "1", "7">>) @@
    ("https://www.manomano.fr/Douches/1/2/2" :> <<"e", "7", "c", "0", "3", "4", "7", "c">>) @@
    ("https://www.manomano.fr/Douches/1/2/3" :> <<"6", "7", "8", "3", "f", "d", "5", "4">>) @@
    ("https://www.manomano.fr/Douches/1/3/1" :> <<"f", "4", "e", "7", "e", "8", "f", "7">>) @@
    ("https://www.manomano.fr/Douches/1/3/2" :> <<"a", "8", "a", "f", "2", "7", "7", "f">>) @@
    ("https://www.manomano.fr/Douches/1/3/3" :> <<"3", "4", "e", "8", "d", "c", "d", "b">>) @@
    ("https://www.manomano.fr/Douches/2/1/1" :> <<"3", "7", "3", "f", "b", "e", "9", "5">>) @@
    ("https://www.manomano.fr/Douches/2/1/2" :> <<"c", "d", "2", "0", "6", "7", "3", "9">>) @@
    ("https://www.manomano.fr/Douches/2/1/3" :> <<"e", "3", "e", "e", "9", "1", "8", "b">>) @@
    ("https://www.manomano.fr/Douches/2/2/1" :> <<"7", "9", "5", "e", "0", "b", "2", "c">>) @@
    ("https://www.manomano.fr/Douches/2/2/2" :> <<"b", "f", "0", "a", "4", "0", "3", "c">>) @@
    ("https://www.manomano.fr/Douches/2/2/3" :> <<"d", "4", "f", "3", "3", "9", "e", "3">>) @@
    ("https://www.manomano.fr/Douches/2/3/1" :> <<"6", "3", "0", "d", "3", "3", "2", "4">>) @@
    ("https://www.manomano.fr/Douches/2/3/2" :> <<"0", "c", "a", "a", "c", "6", "b", "0">>) @@
    ("https://www.manomano.fr/Douches/2/3/3" :> <<"1", "f", "7", "0", "5", "8", "3", "c">>)

\* hashlib.md5(product_url.encode()).hexdigest()[:8]
Md5Hex8(url) == Md5Table[JoinChars(url)]

\* the characters of a supplier name
SupplierChars(supplier) ==
    CASE supplier = "castorama"   -> <<"c", "a", "s", "t", "o", "r", "a", "m", "a">>
      [] supplier = "manomano"    -> <<"m", "a", "n", "o", "m", "a", "n", "o">>
      [] supplier = "leroymerlin" -> <<"l", "e", "r", "o", "y", "m", "e", "r", "l", "i", "n">>
      [] supplier = "brico"       -> <<"b", "r", "i", "c", "o">>

\* Python None: a value that is no str (the elements of a str are single characters)
NoneValue == <<"None">>

\* A float as the value of a field that otherwise holds a str: the marker "float"
\* and the characters of its repr
FloatValue(text) == <<"float">> \o text
IsFloatValue(value) == value # <<>> /\ Head(value) = "float"

\* A dict as the value of a field that otherwise holds a str: the marker "dict"
\* and the items in insertion order, each <<key, value>> of a str key and a value
\* that is a str, None, a float or a dict.
DictValue(items) == <<"dict">> \o items
IsDictValue(value) == value # <<>> /\ Head(value) = "dict"
DictItems(value) == Tail(value)

IsStrValue(value) == value = <<>> \/ Head(value) \notin {"None", "float", "dict"}

\* not value
Falsy(value) ==
    \/ value = <<>> \/ value = NoneValue \/ value = DictValue(<<>>)
    \/ IsFloatValue(value) /\ Tail(value) \in {<<"0", ".", "0">>, <<"-", "0", ".", "0">>}

\* U+00A0, the no-break space of French number formatting
NoBreakSpace == " "

\* what repr() writes for a character of a str quoted with q: an escape for the
\* backslash, for the quote and for the characters str.isprintable() rejects
ReprChar(c, q) ==
    CASE c = "\\"         -> <<"\\", "\\">>
      [] c = q            -> <<"\\", q>>
      [] c = "\n"         -> <<"\\", "n">>
      [] c = "\r"         -> <<"\\", "r">>
      [] c = "\t"         -> <<"\\", "t">>
      [] c = NoBreakSpace -> <<"\\", "x", "a", "0">>
      [] OTHER            -> <<c>>

RECURSIVE ReprChars(_, _)
ReprChars(s, q) == IF s = <<>> THEN <<>> ELSE ReprChar(Head(s), q) \o ReprChars(Tail(s), q)

\* repr of a str: in double quotes when it holds an apostrophe and no double quote
Quoted(s) ==
    LET q == IF "'" \in Range(s) /\ "\"" \notin Range(s) THEN "\"" ELSE "'"
    IN  <<q>> \o ReprChars(s, q) \o <<q>>

RECURSIVE Str(_)
RECURSIVE ItemsRepr(_)

\* repr(value): of a str its quoted form, of None, a float and a dict what str gives
Repr(value) == IF IsStrValue(value) THEN Quoted(value) ELSE Str(value)

\* ', '.join(f"{key!r}: {value!r}") over the items of a dict
ItemsRepr(items) ==
    IF items = <<>> THEN <<>>
    ELSE Quoted(items[1][1]) \o <<":", " ">> \o Repr(items[1][2]) \o
         (IF Len(items) > 1 THEN <<",", " ">> ELSE <<>>) \o ItemsRepr(Tail(items))

\* str(value) of a str, of None, of a float and of a dict
Str(value) ==
    IF value = NoneValue THEN <<"N", "o", "n", "e">>
    ELSE IF IsFloatValue(value) THEN Tail(value)
    ELSE IF IsDictValue(value) THEN <<"{">> \o ItemsRepr(DictItems(value)) \o <<"}">>
    ELSE value

\* product_url.encode() raises AttributeError on None; reached when sku_id is falsy
IdRaises(product_url, sku_id) == Falsy(sku_id) /\ product_url = NoneValue

\* f"{supplier}_{sku_id}" or f"{supplier}_{url_hash}"
generate_product_id(supplier, product_url, sku_id) ==
    IF ~Falsy(sku_id) THEN SupplierChars(supplier) \o <<"_">> \o sku_id
    ELSE SupplierChars(supplier) \o <<"_">> \o Md5Hex8(product_url)

Digits == {"0", "1", "2", "3", "4", "5", "6", "7", "8", "9"}

\* the separator rules of normalize_price, applied to the cleaned string
SeparatorRules(clean) ==
    IF "," \in Range(clean) /\ "." \in Range(clean)
    THEN IF RFind(clean, ",") > RFind(clean, ".")
         THEN Replace(Replace(clean, ".", <<>>), ",", <<".">>)
         ELSE Replace(clean, ",", <<>>)
    ELSE IF "," \in Range(clean)
    THEN IF Count(clean, ",") = 1 /\ Len(clean) - RFind(clean, ",") <= 2
         THEN Replace(clean, ",", <<".">>)
         ELSE Replace(clean, ",", <<>>)
    ELSE clean

\* (str.replace(a, b, 1), which only the variant below uses)
RECURSIVE ReplaceFirst(_, _, _)
ReplaceFirst(s, a, b) == IF s = <<>> THEN <<>>
                         ELSE IF Head(s) = a THEN b \o Tail(s)
                         ELSE <<Head(s)>> \o ReplaceFirst(Tail(s), a, b)

\* (a variant that strips only the first thousands comma)
normalize_price_first_comma_only(price) ==
    IF Falsy(price) THEN <<>>
    ELSE LET clean == SelectSeq(Str(price), LAMBDA c : c \in Digits \cup {".", ","})
         IN  IF "," \in Range(clean) /\ "." \in Range(clean)
             THEN IF RFind(clean, ",") > RFind(clean, ".")
                  THEN Replace(Replace(clean, ".", <<>>), ",", <<".">>)
                  ELSE ReplaceFirst(clean, ",", <<>>)
             ELSE IF "," \in Range(clean)
             THEN IF Count(clean, ",") = 1 /\ Len(clean) - RFind(clean, ",") <= 2
                  THEN Replace(clean, ",", <<".">>)
                  ELSE ReplaceFirst(clean, ",", <<>>)
             ELSE clean

\* re.sub(r'[^\d.,]', '', str(price)) and the separator rules; returns the price string
normalize_price(price) ==
    IF Falsy(price) THEN <<>>
    ELSE With(SelectSeq(Str(price), LAMBDA c : c \in Digits \cup {".", ","}), SeparatorRules)

\* the dict normalize_price returns
normalize_price_dict(price, currency) ==
    [price |-> normalize_price(price), price_currency |-> currency]

\* lower/upper pairs of the letters (str.lower, str.upper, str.title)
CaseTable == {<<"a", "A">>, <<"b", "B">>, <<"c", "C">>, <<"d", "D">>, <<"e", "E">>,
              <<"f", "F">>, <<"g", "G">>, <<"h", "H">>, <<"i", "I">>, <<"j", "J">>,
              <<"k", "K">>, <<"l", "L">>, <<"m", "M">>, <<"n", "N">>, <<"o", "O">>,
              <<"p", "P">>, <<"q", "Q">>, <<"r", "R">>, <<"s", "S">>, <<"t", "T">>,
              <<"u", "U">>, <<"v", "V">>, <<"w", "W">>, <<"x", "X">>, <<"y", "Y">>,
              <<"z", "Z">>, <<"é", "É">>, <<"è", "È">>}
IsLetter(c) == \E p \in CaseTable : c = p[1] \/ c = p[2]
Lower(c) == IF \E p \in CaseTable : c = p[2]
            THEN (CHOOSE p \in CaseTable : c = p[2])[1] ELSE c
Upper(c) == IF \E p \in CaseTable : c = p[1]
            THEN (CHOOSE p \in CaseTable : c = p[1])[2] ELSE c
LowerStr(s) == [i \in 1..Len(s) |-> Lower(s[i])]

\* str.title()
Title(s) == [i \in 1..Len(s) |->
                IF i > 1 /\ IsLetter(s[i - 1]) THEN Lower(s[i]) ELSE Upper(s[i])]

\* str.lstrip() / str.strip() (the only whitespace of the model is " ")
RECURSIVE LStrip(_)
LStrip(s) == IF s # <<>> /\ Head(s) = " " THEN LStrip(Tail(s)) ELSE s
RECURSIVE RStrip(_)
RStrip(s) == IF s # <<>> /\ s[Len(s)] = " " THEN RStrip(SubSeq(s, 1, Len(s) - 1)) ELSE s
Strip(s) == RStrip(LStrip(s))

StartsWithCI(s, prefix) ==
    Len(s) >= Len(prefix) /\ LowerStr(SubSeq(s, 1, Len(prefix))) = prefix

\* re.sub(r'^(marque|brand):\s*', '', brand, flags=re.IGNORECASE)
StripBrandLabel(s) ==
    LET marque == <<"m", "a", "r", "q", "u", "e", ":">>
        brand  == <<"b", "r", "a", "n", "d", ":">>
    IN  IF StartsWithCI(s, marque) THEN LStrip(SubSeq(s, Len(marque) + 1, Len(s)))
        ELSE IF StartsWithCI(s, brand) THEN LStrip(SubSeq(s, Len(brand) + 1, Len(s)))
        ELSE s

\* A brand value is tagged with its Python type: re.sub raises TypeError on a
\* truthy value that is not a string.
BrandRaises(brand) == brand.t = "int" /\ brand.v # 0

normalize_brand(brand) ==
    IF brand.t = "int" \/ brand.v = <<>> THEN <<>>
    ELSE Title(Strip(StripBrandLabel(brand.v)))

\* (a variant whose dict lists limited before the two other classes)
availability_indicators_limited_first ==
    <<
      [status |-> "limited",
       indicators |-> {<<"l", "i", "m", "i", "t", "é">>,
                       <<"l", "i", "m", "i", "t", "e", "d">>,
                       <<"d", "e", "r", "n", "i", "è", "r", "e", "s", " ", "p", "i", "è", "c", "e", "s">>}],
      [status |-> "in_stock",
       indicators |-> {<<"e", "n", " ", "s", "t", "o", "c", "k">>,
                       <<"d", "i", "s", "p", "o", "n", "i", "b", "l", "e">>,
                       <<"a", "v", "a", "i", "l", "a", "b", "l", "e">>,
                       <<"i", "n", " ", "s", "t", "o", "c", "k">>}],
      [status |-> "out_of_stock",
       indicators |-> {<<"r", "u", "p", "t", "u", "r", "e">>,
                       <<"i", "n", "d", "i", "s", "p", "o", "n", "i", "b", "l", "e">>,
                       <<"o", "u", "t", " ", "o", "f", " ", "s", "t", "o", "c", "k">>,
                       <<"é", "p", "u", "i", "s", "é">>}]
    >>

\* availability_indicators, in the order the dict is iterated
availability_indicators ==
    <<
      [status |-> "in_stock",
       indicators |-> {<<"e", "n", " ", "s", "t", "o", "c", "k">>,
                       <<"d", "i", "s", "p", "o", "n", "i", "b", "l", "e">>,
                       <<"a", "v", "a", "i", "l", "a", "b", "l", "e">>,
                       <<"i", "n", " ", "s", "t", "o", "c", "k">>}],
      [status |-> "out_of_stock",
       indicators |-> {<<"r", "u", "p", "t", "u", "r", "e">>,
                       <<"i", "n", "d", "i", "s", "p", "o", "n", "i", "b", "l", "e">>,
                       <<"o", "u", "t", " ", "o", "f", " ", "s", "t", "o", "c", "k">>,
                       <<"é", "p", "u", "i", "s", "é">>}],
      [status |-> "limited",
       indicators |-> {<<"l", "i", "m", "i", "t", "é">>,
                       <<"l", "i", "m", "i", "t", "e", "d">>,
                       <<"d", "e", "r", "n", "i", "è", "r", "e", "s", " ", "p", "i", "è", "c", "e", "s">>}]
    >>

\* indicator in text_to_check
Contains(text, phrase) ==
    \E i \in 1..(Len(text) - Len(phrase) + 1) : SubSeq(text, i, i + Len(phrase) - 1) = phrase

\* f"{product_data.get('product_name', '')} {product_data.get('description', '')}".lower()
text_to_check(product_data) ==
    LowerStr(Get(product_data, "product_name", <<>>) \o <<" ">> \o
             Get(product_data, "description", <<>>))

\* for status, indicators in availability_indicators.items(): the first status one
\* of whose indicators is in the text
RECURSIVE AvailabilityLoop(_, _)
AvailabilityLoop(text, i) ==
    IF i > Len(availability_indicators) THEN "unknown"
    ELSE IF \E indicator \in availability_indicators[i].indicators : Contains(text, indicator)
         THEN availability_indicators[i].status
         ELSE AvailabilityLoop(text, i + 1)

determine_availability(product_data) == AvailabilityLoop(text_to_check(product_data), 1)

\* the characters urlsplit accepts in a scheme (ASCII letters, digits, "+", "-", ".")
AsciiLetter(c) == IsLetter(c) /\ c \notin {"é", "è", "É", "È"}
SchemeChar(c) == AsciiLetter(c) \/ c \in Digits \/ c \in {"+", "-", "."}

\* str.find(c) + 1 (0 when c does not occur)
Find(s, c) == IF \E i \in 1..Len(s) : s[i] = c
              THEN CHOOSE i \in 1..Len(s) : s[i] = c /\ \A j \in 1..(i - 1) : s[j] # c
              ELSE 0

\* the characters urlsplit strips from the left of a URL (C0 controls and the
\* space) and those it removes everywhere, as far as the model has them
C0ControlOrSpace == {" ", "\t", "\n", "\r"}
UnsafeUrlBytes == {"\t", "\n", "\r"}

\* url.lstrip(_WHATWG_C0_CONTROL_OR_SPACE)
RECURSIVE LStripC0(_)
LStripC0(url) == IF url # <<>> /\ Head(url) \in C0ControlOrSpace THEN LStripC0(Tail(url))
                 ELSE url

\* the text urlsplit parses
UrlCleaned(url) == SelectSeq(LStripC0(url), LAMBDA c : c \notin UnsafeUrlBytes)

\* _splitnetloc(url, 2): the text after "//" up to the first "/", "?" or "#"
RECURSIVE SplitNetloc(_)
SplitNetloc(rest) == IF rest = <<>> \/ Head(rest) \in {"/", "?", "#"} THEN <<>>
                     ELSE <<Head(rest)>> \o SplitNetloc(Tail(rest))

HexDigits == Digits \cup {"a", "b", "c", "d", "e", "f", "A", "B", "C", "D", "E", "F"}

\* str.split(c)
RECURSIVE Split(_, _)
Split(s, c) ==
    IF c \notin Range(s) THEN <<s>>
    ELSE <<SubSeq(s, 1, Find(s, c) - 1)>> \o Split(SubSeq(s, Find(s, c) + 1, Len(s)), c)

\* ipaddress.IPv6Address accepts the text: 8 groups of 1 to 4 hex digits, or fewer
\* around one "::" (hosts with an embedded IPv4 address or a scope id are outside
\* the model)
IsIPv6(host) ==
    LET parts  == Split(host, ":")
        n      == Len(parts)
        skips  == {i \in 2..(n - 1) : parts[i] = <<>>}
        Hextet(part) == part # <<>> /\ Len(part) <= 4 /\ Range(part) \subseteq HexDigits
    IN  /\ Range(host) \subseteq HexDigits \cup {":"}
        /\ n >= 3 /\ n <= 9
        /\ Cardinality(skips) <= 1
        /\ IF skips # {}
           THEN LET skip_index == CHOOSE i \in skips : TRUE
                    parts_hi == (skip_index - 1) - IF parts[1] = <<>> THEN 1 ELSE 0
                    parts_lo == (n - skip_index) - IF parts[n] = <<>> THEN 1 ELSE 0
                IN  /\ parts[1] = <<>> => parts_hi = 0
                    /\ parts[n] = <<>> => parts_lo = 0
                    /\ 8 - (parts_hi + parts_lo) >= 1
                    /\ \A i \in 1..parts_hi : Hextet(parts[i])
                    /\ \A i \in (n - parts_lo + 1)..n : Hextet(parts[i])
           ELSE n = 8 /\ \A i \in 1..n : Hextet(parts[i])

\* re.match(r"\Av[a-fA-F0-9]+\..+\Z", hostname)
IsIPvFuture(host) ==
    \E k \in 3..(Len(host) - 1) :
        /\ host[k] = "."
        /\ \A j \in 2..(k - 1) : host[j] \in HexDigits

\* _check_bracketed_host raises ValueError
BracketedHostRaises(host) ==
    IF host # <<>> /\ Head(host) = "v" THEN ~IsIPvFuture(host) ELSE ~IsIPv6(host)

\* the text between the first "[" and the "]" that follows it
BracketedHost(netloc) ==
    LET after == SubSeq(netloc, Find(netloc, "[") + 1, Len(netloc))
    IN  IF "]" \in Range(after) THEN SubSeq(after, 1, Find(after, "]") - 1) ELSE after

\* urlsplit raises ValueError on a netloc with one bracket only, and on a bracketed
\* host that is no IPv6 address
NetlocRaises(netloc) ==
    LET open_  == "[" \in Range(netloc)
        close_ == "]" \in Range(netloc)
    IN  \/ open_ /\ ~close_
        \/ close_ /\ ~open_
        \/ open_ /\ close_ /\ BracketedHostRaises(BracketedHost(netloc))

\* validate_url: urlparse(url) does not raise and gives a scheme and a netloc
validate_url(url) ==
    /\ url # <<>>
    /\ LET cleaned == UrlCleaned(url)
           colon   == Find(cleaned, ":")
       IN
       /\ colon > 1
       /\ AsciiLetter(cleaned[1])
       /\ \A k \in 1..(colon - 1) : SchemeChar(cleaned[k])
       /\ Len(cleaned) >= colon + 2
       /\ cleaned[colon + 1] = "/" /\ cleaned[colon + 2] = "/"
       /\ LET netloc == SplitNetloc(SubSeq(cleaned, colon + 3, Len(cleaned)))
          IN  netloc # <<>> /\ ~NetlocRaises(netloc)

NoImages == [t |-> "list", v |-> <<>>]

\* product_data.get("image_urls", []) or product_data.get("image_url", []),
\* a string made a list of one
image_urls_of(product_data) ==
    LET first == Get(product_data, "image_urls", NoImages)
        chosen == IF first.v # <<>> THEN first ELSE Get(product_data, "image_url", NoImages)
    IN  IF chosen.t = "str" THEN <<chosen.v>> ELSE chosen.v

\* (a variant that does not look at seen_images)
RECURSIVE ImageLoop_keeping_duplicates(_, _, _, _)
ImageLoop_keeping_duplicates(image_urls, i, valid_images, seen_images) ==
    IF i > Len(image_urls) THEN valid_images
    ELSE IF image_urls[i] # <<>> /\ validate_url(image_urls[i])
         THEN ImageLoop_keeping_duplicates(image_urls, i + 1, Append(valid_images, image_urls[i]),
                                           seen_images \cup {image_urls[i]})
         ELSE ImageLoop_keeping_duplicates(image_urls, i + 1, valid_images, seen_images)

\* for img_url in image_urls: keep it when it is valid and not seen yet
RECURSIVE ImageLoop(_, _, _, _)
ImageLoop(image_urls, i, valid_images, seen_images) ==
    IF i > Len(image_urls) THEN valid_images
    ELSE IF /\ image_urls[i] # <<>> /\ validate_url(image_urls[i])
            /\ image_urls[i] \notin seen_images
         THEN ImageLoop(image_urls, i + 1, Append(valid_images, image_urls[i]),
                        seen_images \cup {image_urls[i]})
         ELSE ImageLoop(image_urls, i + 1, valid_images, seen_images)

valid_images(product_data) == ImageLoop(image_urls_of(product_data), 1, <<>>, {})

NoBrand == [t |-> "str", v |-> <<>>]

NoMeasurement == [t |-> "dict", v |-> EmptyDict]

\* normalize_measurement: measurement.items() raises AttributeError on a truthy
\* value that is not a dict
MeasurementRaises(measurement) == measurement.t = "str" /\ measurement.v # <<>>

\* the exception that leaves process_product, in the order the fields are computed:
\* id, brand, measurement
ProcessError(product_data) ==
    IF IdRaises(Get(product_data, "product_url", <<>>), Get(product_data, "sku_id", <<>>))
    THEN "AttributeError"
    ELSE IF BrandRaises(Get(product_data, "brand", NoBrand)) THEN "TypeError"
    ELSE IF MeasurementRaises(Get(product_data, "measurement", NoMeasurement))
    THEN "AttributeError"
    ELSE "none"

ProcessRaises(product_data) == ProcessError(product_data) # "none"

\* The processed product (the fields that identify, validate and price it, and
\* its image URLs).
process_product(product_data, supplier) ==
    [id            |-> generate_product_id(supplier,
                                           Get(product_data, "product_url", <<>>),
                                           Get(product_data, "sku_id", <<>>)),
     supplier      |-> supplier,
     category      |-> Get(product_data, "category", ""),
     product_name  |-> Get(product_data, "product_name", <<>>),
     brand         |-> normalize_brand(Get(product_data, "brand", NoBrand)),
     product_url   |-> Get(product_data, "product_url", <<>>),
     sku_id        |-> Get(product_data, "sku_id", <<>>),
     price         |-> normalize_price(Get(product_data, "price", <<>>)),
     price_currency |-> Get(product_data, "price_currency", data_processor.price_currency),
     image_urls    |-> valid_images(product_data)]

\* f"{product.get('product_url', '')}_{product.get('product_name', '')}"
FormatStr(value) == IF value = NoneValue THEN <<"N", "o", "n", "e">> ELSE value

product_key(product) ==
    FormatStr(Get(product, "product_url", <<>>)) \o <<"_">> \o
    FormatStr(Get(product, "product_name", <<>>))

\* (a variant that puts each new product in front of the ones already kept)
RECURSIVE RemoveDuplicatesLoop_prepending(_, _, _, _)
RemoveDuplicatesLoop_prepending(products, i, seen_products, unique_products) ==
    IF i > Len(products) THEN unique_products
    ELSE IF product_key(products[i]) \notin seen_products
         THEN RemoveDuplicatesLoop_prepending(products, i + 1,
                                   seen_products \cup {product_key(products[i])},
                                   <<products[i]>> \o unique_products)
         ELSE RemoveDuplicatesLoop_prepending(products, i + 1, seen_products, unique_products)

RECURSIVE RemoveDuplicatesLoop(_, _, _, _)
RemoveDuplicatesLoop(products, i, seen_products, unique_products) ==
    IF i > Len(products) THEN unique_products
    ELSE IF product_key(products[i]) \notin seen_products
         THEN RemoveDuplicatesLoop(products, i + 1,
                                   seen_products \cup {product_key(products[i])},
                                   Append(unique_products, products[i]))
         ELSE RemoveDuplicatesLoop(products, i + 1, seen_products, unique_products)

remove_duplicates(products) == RemoveDuplicatesLoop(products, 1, {}, <<>>)

validate_product(product) ==
    /\ ~Falsy(Get(product, "product_name", <<>>))
    /\ ~Falsy(Get(product, "product_url", <<>>))
    /\ ~Falsy(Get(product, "price", <<>>))

RECURSIVE BatchLoop(_, _, _, _)
BatchLoop(products, supplier, i, processed_products) ==
    IF i > Len(products) THEN processed_products
    ELSE IF ProcessRaises(products[i])
         THEN BatchLoop(products, supplier, i + 1, processed_products)
         ELSE LET processed_product == process_product(products[i], supplier)
              IN  IF validate_product(processed_product)
                  THEN BatchLoop(products, supplier, i + 1,
                                 Append(processed_products, processed_product))
                  ELSE BatchLoop(products, supplier, i + 1, processed_products)

\* cfg_remove_duplicates is config['data_processing']['remove_duplicates'] (default True)
process_products_batch(products, supplier, cfg_remove_duplicates) ==
    LET processed_products == BatchLoop(products, supplier, 1, <<>>)
    IN  IF cfg_remove_duplicates THEN remove_duplicates(processed_products)
        ELSE processed_products

(***************************************************************************)
(* Inputs of the pure functions.                                           *)
(***************************************************************************)
\* product_url / product_name strings
UrlNameStrs == {<<>>, <<"a">>, <<"_">>, <<"a", "_">>, <<"_", "a">>}

\* products as remove_duplicates sees them; id and sku_id vary together
DedupProducts ==
    {[product_url |-> u, product_name |-> n, id |-> <<"x", k>>, sku_id |-> <<"s", k>>] :
        u \in UrlNameStrs, n \in UrlNameStrs, k \in {"1", "2"}}

OptField(present, key, value) == IF present THEN key :> value ELSE EmptyDict

\* values of the measurement field: missing, a dict, or a string such as '10 cm'
RawMeasurements == {NoMeasurement, [t |-> "dict", v |-> [width |-> "10"]],
                    [t |-> "str", v |-> <<"1", "0", " ", "c", "m">>]}

\* raw supplier records: any field may be missing, brand may be a non-string
WellTypedRecords ==
    {OptField(hasName, "product_name", n) @@ OptField(hasSku, "sku_id", <<"s">>) @@
     [product_url |-> u, price |-> p, brand |-> b, category |-> "Peinture"] :
        hasName \in BOOLEAN, hasSku \in BOOLEAN,
        n \in {<<"a">>, <<"_">>}, u \in {<<"a">>, <<"_">>},
        p \in {<<>>, <<"9">>},
        b \in {[t |-> "str", v |-> <<"b">>], [t |-> "int", v |-> 7]}}

\* records whose measurement is present (a dict or a non-dict) or whose product_url
\* is None
OddRecords ==
    {OptField(hasSku, "sku_id", <<"s">>) @@ OptField(m # NoMeasurement, "measurement", m) @@
     [product_name |-> <<"a">>, product_url |-> u, price |-> <<"9">>,
      brand |-> [t |-> "str", v |-> <<"b">>], category |-> "Peinture"] :
        hasSku \in BOOLEAN, u \in {<<"a">>, NoneValue}, m \in RawMeasurements}

RawRecords == WellTypedRecords \cup OddRecords

\* the configurations a DataProcessor is built with: none, and one that sets the
\* currency
ProcessorConfigs ==
    {PyNone, [t |-> "dict", v |-> [data_processing |-> [price_currency |-> "USD"]]]}

NotCalled == [done |-> FALSE, value |-> <<>>]
Returned(v) == [done |-> TRUE, value |-> v]

(***************************************************************************)
(* Idle values of the variables a specification does not use.              *)
(***************************************************************************)
Workers == {"castorama", "manomano", "leroymerlin"}

DedupIdle ==
    /\ dd_in = [products |-> <<>>, cfg |-> TRUE] /\ dd_out = NotCalled /\ dd_op = "none"
    /\ data_processor = DataProcessorInit(PyNone)
FilesIdle == jsonFiles = EmptyDict /\ csvFiles = EmptyDict
OMIdle == om_last = [op |-> "none", n |-> 0]
WorkersIdle ==
    /\ mpc = "idle" /\ crashed = FALSE /\ faults = 0
    /\ wpc = [w \in Workers |-> "unstarted"]
    /\ wsid = [w \in Workers |-> "unset"]
    /\ wkw = [w \in Workers |-> 0]
    /\ wlink = [w \in Workers |-> [i |-> 0, n |-> 0]]
    /\ wpage = [w \in Workers |-> 0]
    /\ wbatch = [w \in Workers |-> <<>>]
    /\ wdata = [w \in Workers |-> <<>>]
    /\ all_products = [w \in Workers |-> <<>>]
    /\ committed = [w \in Workers |-> <<>>]
    /\ reported = [w \in Workers |-> 0]

ParIdle == WorkersIdle /\ wkeywords = [w \in Workers |-> <<>>]

RunIdle ==
    /\ rpc = "idle" /\ r_suppliers = <<>> /\ r_idx = 0 /\ r_calls = <<>> /\ r_log = <<>>
    /\ stats = EmptyDict /\ run_products = <<>> /\ by_supplier = EmptyDict
    /\ consolidated = NotCalled /\ summary = NotCalled

(***************************************************************************)
(* SpecDedup: the pure functions of DataProcessor applied to bounded       *)
(* inputs.                                                                 *)
(***************************************************************************)
InitDedup ==
    /\ \/ /\ dd_op = "remove_duplicates"
          /\ \E xs \in SeqsUpTo(DedupProducts, MaxList) : dd_in = [products |-> xs, cfg |-> TRUE]
       \/ /\ dd_op = "process_products_batch"
          /\ \E xs \in SeqsUpTo(RawRecords, MaxList), c \in BOOLEAN :
                dd_in = [products |-> xs, cfg |-> c]
    /\ dd_out = NotCalled
    /\ \E config \in ProcessorConfigs : data_processor = DataProcessorInit(config)
    /\ FilesIdle /\ OMIdle /\ ParIdle /\ RunIdle

CallRemoveDuplicates ==
    /\ dd_op = "remove_duplicates" /\ ~dd_out.done
    /\ dd_out' = Returned(remove_duplicates(dd_in.products))
    /\ UNCHANGED <<dd_in, dd_op, data_processor, fileVars, omVars, parVars, runVars>>

CallProcessProductsBatch ==
    /\ dd_op = "process_products_batch" /\ ~dd_out.done
    /\ dd_out' = Returned(process_products_batch(dd_in.products, "castorama", dd_in.cfg))
    /\ UNCHANGED <<dd_in, dd_op, data_processor, fileVars, omVars, parVars, runVars>>

NextDedup == CallRemoveDuplicates \/ CallProcessProductsBatch

SpecDedup == InitDedup /\ [][NextDedup]_vars

\* ---- properties over SpecDedup

SameUrlAndName(p, q) ==
    /\ Get(p, "product_url", <<>>) = Get(q, "product_url", <<>>)
    /\ Get(p, "product_name", <<>>) = Get(q, "product_name", <<>>)

\* the products no earlier product of the list matches in both strings, in order
RECURSIVE FirstsByPair(_, _)
FirstsByPair(products, i) ==
    IF i > Len(products) THEN <<>>
    ELSE (IF \E j \in 1..(i - 1) : SameUrlAndName(products[j], products[i])
          THEN <<>> ELSE <<products[i]>>) \o FirstsByPair(products, i + 1)

\* C10: remove_duplicates drops a later product if and only if an earlier product of
\* the list has exactly the same product_url and exactly the same product_name; the
\* result is therefore the list of the first product of every (url, name) pair,
\* whatever the id and sku_id are.
C10_DedupKeyContract ==
    (dd_op = "remove_duplicates" /\ dd_out.done)
        => dd_out.value = FirstsByPair(dd_in.products, 1)

(***************************************************************************)
(* src/utils/logger.py: OutputManager session files.                       *)
(*                                                                         *)
(* A JSON file is modelled by the document json.load would return, with    *)
(* valid = FALSE for a file that holds no complete JSON text (opened for   *)
(* writing and not yet, or never, completely written).  A product is a     *)
(* dict whose values carry their Python type.  A CSV file is modelled by   *)
(* its lines, each a sequence of cells; csv.DictReader takes the first     *)
(* line as the header whatever wrote it.                                   *)
(***************************************************************************)
PyStr(v)  == [t |-> "str", v |-> v]
PyDict(v) == [t |-> "dict", v |-> v]
PyList(v) == [t |-> "list", v |-> v]
\* an int and a float, with v the text str() gives for them
PyInt(n) == [t |-> "int", v |-> ToString(n)]
PyFloat(text) == [t |-> "float", v |-> text]
\* a dict that is a value of a dict, with the text str() gives for it
PyNestedDict(v, text) == [t |-> "dict", v |-> v, text |-> text]
\* a set, with v the text str() gives for it
PySet     == [t |-> "set", v |-> "{'x'}"]

\* f"{scraper_name}_products_{session_id}.json" / ".csv"
SessionFileKey(scraper_name, session_id) == <<scraper_name, session_id>>

\* json_metadata of initialize_session_files
NewSessionDoc(scraper_name, session_id) ==
    [valid    |-> TRUE,
     metadata |-> [scraper |-> scraper_name, session_id |-> session_id,
                   scraped_at |-> "now", total_products |-> 0, file_version |-> "1.0"],
     products |-> <<>>]

\* a file opened with mode 'w' whose json.dump has not completed
Truncated == [valid |-> FALSE, metadata |-> EmptyDict, products |-> <<>>]

\* the header initialize_session_files writes
InitFieldnames == <<"sku_id", "product_name", "category", "price", "price_currency",
                    "product_url", "brand", "measurement", "image_url", "rating",
                    "description", "initial_price", "discount_rate", "original_price",
                    "price_m", "url_path", "image_urls">>

\* writer.writeheader() on a file opened with 'w'
NewSessionCsv == <<InitFieldnames>>

\* with open(json_filepath, 'r') ...: json.load(f) succeeds
JsonReadable(files, key) == key \in DOMAIN files /\ files[key].valid

\* json.dump raises TypeError on a value that is not JSON serializable
Serializable(products) ==
    \A i \in 1..Len(products) : \A k \in DOMAIN products[i] : products[i][k].t # "set"

\* (a variant that counts only the new batch)
total_products_of_batch_only(data, products) == Len(products)

\* (a variant that keeps only the new batch)
AppendedDoc_replacing(data, products) ==
    [valid    |-> TRUE,
     metadata |-> ("last_updated" :> "now") @@
                  [data.metadata EXCEPT !.total_products = Len(products)],
     products |-> products]

\* data["products"].extend(products); total_products = len(...); last_updated = now
total_products_of(data, products) == Len(data.products \o products)

AppendedDoc(data, products) ==
    [valid    |-> TRUE,
     metadata |-> ("last_updated" :> "now") @@
                  [data.metadata EXCEPT !.total_products = total_products_of(data, products)],
     products |-> data.products \o products]

\* f"{key}_{nested_key}"
FlatKey(key, nested_key) == key \o "_" \o nested_key

DictKeys(product) == {k \in DOMAIN product : product[k].t = "dict"}

\* the keys of `row` built for one product
RowKeys(product) ==
    (DOMAIN product \ DictKeys(product)) \cup
    UNION {{FlatKey(k, nk) : nk \in DOMAIN product[k].v} : k \in DictKeys(product)}

\* '; '.join(str(item) for item in value)
RECURSIVE Join(_)
Join(items) == IF items = <<>> THEN ""
               ELSE IF Len(items) = 1 THEN Head(items)
               ELSE Head(items) \o "; " \o Join(Tail(items))

\* the text csv.writer writes for a value of `row`: '' for None, else str(value)
CsvCell(value) ==
    CASE value.t = "none" -> ""
      [] value.t = "dict" -> value.text
      [] OTHER            -> value.v

FlattenRow(product) ==
    [f \in RowKeys(product) |->
        IF f \in DOMAIN product \ DictKeys(product)
        THEN IF product[f].t = "list" THEN Join(product[f].v) ELSE CsvCell(product[f])
        ELSE LET key        == CHOOSE k \in DictKeys(product) :
                                    \E nk \in DOMAIN product[k].v : FlatKey(k, nk) = f
                 nested_key == CHOOSE nk \in DOMAIN product[key].v : FlatKey(key, nk) = f
             IN  CsvCell(product[key].v[nested_key])]

\* the field names and cells of the model in the order of sorted()
StrOrder == <<"", "10", "a; b", "availability", "brand", "category", "category_path",
              "catgroy_path", "cm", "description", "discount_rate", "image_url",
              "image_urls", "initial_price", "measurement", "measurement_unit",
              "measurement_width", "original_price", "p1", "p2", "p3", "price",
              "price_currency", "price_m", "price_price", "product_id", "product_name",
              "product_url", "rating", "rating_count", "sku_id", "tags", "totalRating",
              "unit_count", "url_path", "{'x'}">>

\* sorted(list(fieldnames))
Sorted(names) == SelectSeq(StrOrder, LAMBDA x : x \in names)

\* csv.DictReader(f).fieldnames or [] when the file exists: the first line of the file
ReaderFieldnames(csv, key) ==
    IF key \in DOMAIN csv /\ csv[key] # <<>> THEN csv[key][1] ELSE <<>>

ProductKeys(products) == UNION {DOMAIN products[i] : i \in 1..Len(products)}

\* fieldnames of the DictWriter of the append: the keys of the new products and the
\* first line of the existing file, sorted
AppendFieldnames(csv, key, products) ==
    Sorted(ProductKeys(products) \cup Range(ReaderFieldnames(csv, key)))

\* DictWriter.writerow raises ValueError on a row with a key outside fieldnames
RowFits(fieldnames, product) == RowKeys(product) \subseteq Range(fieldnames)

\* the line DictWriter writes: one cell per fieldname, '' for a missing key
WriteRow(fieldnames, row) ==
    [i \in 1..Len(fieldnames) |->
        IF fieldnames[i] \in DOMAIN row THEN row[fieldnames[i]] ELSE ""]

\* lines written before the first row that raises
RowsWritten(fieldnames, products) ==
    LET bad == {i \in 1..Len(products) : ~RowFits(fieldnames, products[i])}
        n   == IF bad = {} THEN Len(products)
               ELSE (CHOOSE i \in bad : \A j \in bad : i <= j) - 1
    IN  [i \in 1..n |-> WriteRow(fieldnames, FlattenRow(products[i]))]

CsvRaises(csv, key, products) ==
    \E fieldnames \in {AppendFieldnames(csv, key, products)} :
        \E i \in 1..Len(products) : ~RowFits(fieldnames, products[i])

CsvWritten(csv, key, products) ==
    With(AppendFieldnames(csv, key, products), LAMBDA fieldnames :
            RowsWritten(fieldnames, products))

\* open(csv_filepath, 'a') creates a missing file; no header line is written
CsvAppended(csv, key, products) ==
    LET old == IF key \in DOMAIN csv THEN csv[key] ELSE <<>>
    IN  (key :> old \o CsvWritten(csv, key, products)) @@ csv

\* output_data of save_scraper_data_session
SessionDoc(scraper_name, data, session_id) ==
    [valid    |-> TRUE,
     metadata |-> [scraper |-> scraper_name, session_id |-> session_id,
                   scraped_at |-> "now", total_products |-> Len(data),
                   file_version |-> "1.0"],
     products |-> data]

\* output_data of save_scraper_data: no session_id in the metadata
TimestampDoc(scraper_name, data) ==
    [valid    |-> TRUE,
     metadata |-> [scraper |-> scraper_name, scraped_at |-> "now",
                   total_products |-> Len(data), file_version |-> "1.0"],
     products |-> data]

\* the file save_scraper_data_csv leaves: the header alone for no data, else the
\* sorted keys of the products and the rows written before a row raises
SavedCsv(data) ==
    IF data = <<>> THEN <<InitFieldnames>>
    ELSE <<Sorted(ProductKeys(data))>> \o RowsWritten(Sorted(ProductKeys(data)), data)

SaveCsvRaises(data) ==
    \E i \in 1..Len(data) : ~RowFits(Sorted(ProductKeys(data)), data[i])

\* the key None under which csv.DictReader keeps the cells a line has beyond the
\* header (restkey)
RestKey == "None (restkey)"

\* csv.DictReader: the rows of the file as dicts keyed by the cells of the first line;
\* a missing cell reads as None (restval), surplus cells are a list under RestKey
ReadCell(fieldnames, line, f) ==
    IF f = RestKey THEN SubSeq(line, Len(fieldnames) + 1, Len(line))
    ELSE LET i == CHOOSE j \in 1..Len(fieldnames) :
                      fieldnames[j] = f /\ \A k \in (j + 1)..Len(fieldnames) : fieldnames[k] # f
         IN  IF i <= Len(line) THEN line[i] ELSE "None"

ReadBack(lines) ==
    IF lines = <<>> THEN <<>>
    ELSE [r \in 1..(Len(lines) - 1) |->
            [f \in Range(lines[1]) \cup
                   (IF Len(lines[r + 1]) > Len(lines[1]) THEN {RestKey} ELSE {}) |->
                ReadCell(lines[1], lines[r + 1], f)]]

\* products a scraper can parse from a page
PlainProduct  == [product_name |-> PyStr("p1"), image_url |-> PyList(<<"a", "b">>),
                  measurement |-> PyDict(EmptyDict)]
NestedProduct == [product_name |-> PyStr("p2"),
                  measurement |-> PyDict([width |-> PyStr("10"), unit |-> PyStr("cm")])]
UnserializableProduct == [product_name |-> PyStr("p3"), tags |-> PySet]

SessionProducts == {PlainProduct, NestedProduct, UnserializableProduct}

(***************************************************************************)
(* SpecOM: a client calling the OutputManager.                             *)
(***************************************************************************)
OMNames == {"castorama", "manomano"}
OMSessionIds == {"20250101_000000"}

InitOM ==
    /\ FilesIdle /\ OMIdle /\ DedupIdle /\ ParIdle /\ RunIdle

\* initialize_session_files(scraper_name, session_id)
InitializeSessionFiles ==
    \E name \in OMNames, sid \in OMSessionIds :
        LET key == SessionFileKey(name, sid) IN
        /\ jsonFiles' = (key :> NewSessionDoc(name, sid)) @@ jsonFiles
        /\ csvFiles' = (key :> NewSessionCsv) @@ csvFiles
        /\ om_last.n < MaxCalls
        /\ om_last' = [op |-> "initialize", key |-> key, batch |-> <<>>,
                       outcome |-> "returned", n |-> om_last.n + 1]
        /\ UNCHANGED <<ddVars, parVars, runVars>>

\* append_products_to_session(scraper_name, products, session_id)
AppendProductsToSession ==
    \E name \in OMNames, sid \in OMSessionIds, products \in SeqsUpTo(SessionProducts, MaxBatch) :
        LET key == SessionFileKey(name, sid) IN
        /\ om_last.n < MaxCalls
        /\ om_last' = [op |-> "append", key |-> key, batch |-> products,
                       n |-> om_last.n + 1,
                       outcome |->
                          IF products = <<>> THEN "returned"
                          ELSE IF ~JsonReadable(jsonFiles, key) \/ ~Serializable(products)
                          THEN "raised_json"
                          ELSE IF CsvRaises(csvFiles, key, products) THEN "raised_csv"
                          ELSE "returned"]
        /\ IF products = <<>> \/ ~JsonReadable(jsonFiles, key)
           THEN UNCHANGED fileVars
           ELSE IF ~Serializable(products)
           THEN jsonFiles' = [jsonFiles EXCEPT ![key] = Truncated] /\ UNCHANGED csvFiles
           ELSE /\ Len(jsonFiles[key].products) + Len(products) <= MaxFileLen
                /\ Len(CsvAppended(csvFiles, key, products)[key]) <= MaxCsvLines
                /\ jsonFiles' = [jsonFiles EXCEPT ![key] = AppendedDoc(jsonFiles[key], products)]
                /\ csvFiles' = CsvAppended(csvFiles, key, products)
        /\ UNCHANGED <<ddVars, parVars, runVars>>

\* save_scraper_data_session(scraper_name, data, session_id)
SaveScraperDataSession ==
    \E name \in OMNames, sid \in OMSessionIds, data \in SeqsUpTo(SessionProducts, MaxSaved) :
        LET key == SessionFileKey(name, sid) IN
        /\ om_last.n < MaxCalls
        /\ om_last' = [op |-> "save_session", key |-> key, batch |-> data,
                       outcome |-> IF Serializable(data) THEN "returned" ELSE "raised_json",
                       n |-> om_last.n + 1]
        /\ jsonFiles' = (key :> IF Serializable(data) THEN SessionDoc(name, data, sid)
                                ELSE Truncated) @@ jsonFiles
        /\ UNCHANGED <<csvFiles, ddVars, parVars, runVars>>

\* save_scraper_data(scraper_name, data, timestamp) with the session id as timestamp
SaveScraperData ==
    \E name \in OMNames, sid \in OMSessionIds, data \in SeqsUpTo(SessionProducts, MaxSaved) :
        LET key == SessionFileKey(name, sid) IN
        /\ om_last.n < MaxCalls
        /\ om_last' = [op |-> "save", key |-> key, batch |-> data,
                       outcome |-> IF Serializable(data) THEN "returned" ELSE "raised_json",
                       n |-> om_last.n + 1]
        /\ jsonFiles' = (key :> IF Serializable(data) THEN TimestampDoc(name, data)
                                ELSE Truncated) @@ jsonFiles
        /\ UNCHANGED <<csvFiles, ddVars, parVars, runVars>>

\* save_scraper_data_csv(scraper_name, data, session_id)
SaveScraperDataCsv ==
    \E name \in OMNames, sid \in OMSessionIds, data \in SeqsUpTo(SessionProducts, MaxSaved) :
        LET key == SessionFileKey(name, sid) IN
        /\ om_last.n < MaxCalls
        /\ om_last' = [op |-> "save_csv", key |-> key, batch |-> data,
                       outcome |-> IF SaveCsvRaises(data) THEN "raised_csv" ELSE "returned",
                       n |-> om_last.n + 1]
        /\ csvFiles' = (key :> SavedCsv(data)) @@ csvFiles
        /\ UNCHANGED <<jsonFiles, ddVars, parVars, runVars>>

NextOM ==
    \/ InitializeSessionFiles
    \/ AppendProductsToSession
    \/ SaveScraperDataSession
    \/ SaveScraperData
    \/ SaveScraperDataCsv

SpecOM == InitOM /\ [][NextOM]_vars

\* ---- properties over SpecOM

\* C2: every complete session JSON file has metadata.total_products equal to the
\* length of its products list, and right after initialize_session_files the count
\* is 0 and the list is empty.
C2_TotalMatchesProducts ==
    /\ \A key \in DOMAIN jsonFiles :
          jsonFiles[key].valid =>
              jsonFiles[key].metadata.total_products = Len(jsonFiles[key].products)
    /\ om_last.op = "initialize" =>
          /\ jsonFiles[om_last.key].metadata.total_products = 0
          /\ jsonFiles[om_last.key].products = <<>>

\* a file that two appends have grown to two products
W_C2_CountedAfterAppends ==
    /\ om_last.op = "append" /\ om_last.outcome = "returned"
    /\ Len(om_last.batch) = 1
    /\ jsonFiles[om_last.key].valid
    /\ jsonFiles[om_last.key].metadata.total_products = 2

AppendReturned == om_last'.op = "append" /\ om_last'.outcome = "returned"

\* C3: an append that returns leaves in the file the previously persisted products
\* followed by the batch, in order; an empty batch changes no file; no other file
\* is touched.
C3_AppendOnly ==
    [][AppendReturned =>
          LET key == om_last'.key IN
          IF om_last'.batch = <<>> THEN jsonFiles' = jsonFiles
          ELSE /\ jsonFiles'[key].products = jsonFiles[key].products \o om_last'.batch
               /\ \A other \in DOMAIN jsonFiles \ {key} : jsonFiles'[other] = jsonFiles[other]]_vars

\* a returned append of a non-empty batch onto a file that already held a product
W_C3_AppendedAfterEarlier ==
    /\ om_last.op = "append" /\ om_last.outcome = "returned"
    /\ om_last.batch = <<PlainProduct>>
    /\ jsonFiles[om_last.key].products = <<PlainProduct, PlainProduct>>
    /\ \E other \in DOMAIN jsonFiles \ {om_last.key} : jsonFiles[other].products # <<>>

(***************************************************************************)
(* SpecPar: run_scrapers_parallel.main and its three worker threads.       *)
(*                                                                         *)
(* A worker is run_castorama / run_manomano / run_leroymerlin: it builds   *)
(* its scraper (which creates the session files) and runs the keyword and  *)
(* page loops.  A worker's step ends wherever the content of a session     *)
(* file on disk changes: at the open that creates or empties a file and at *)
(* the close that flushes what was written to it.  What a thread does on   *)
(* its own objects in between belongs to the step.  Crash is the process   *)
(* being killed.                                                           *)
(***************************************************************************)
\* (a variant in which every scraper passes the same name to the OutputManager)
ScraperName_shared(w) == "castorama"

\* the scraper_name literal each scraper passes to the OutputManager
ScraperName(w) ==
    CASE w = "castorama"   -> "castorama"
      [] w = "manomano"    -> "manomano"
      [] w = "leroymerlin" -> "leroymerlin"

\* datetime.now().strftime("%Y%m%d_%H%M%S") of threads started in the same second
ParSessionIds == {"20250101_000000"}

\* the keywords run_x hands to scraper.run
ParKeywords(w) ==
    CASE w = "castorama" ->
             <<"Peinture", "Lavabos", "Toilettes", "Meubles-lavabos", "Douches", "Carrelage">>
      [] w = "manomano" ->
             <<"Carrelage", "Éviers", "Toilettes", "Peinture", "Vanités", "Douches">>
      [] w = "leroymerlin" ->
             <<"Peinture", "Lavabos", "Toilettes", "Meubles-lavabos", "Douches", "Carrelage">>

\* for kw in keywords, up to the bound of the model
LastKeyword(w) == IF MaxKeywords < Len(wkeywords[w]) THEN MaxKeywords ELSE Len(wkeywords[w])

Keyword(w) == wkeywords[w][wkw[w]]

\* threads in the order main() starts and joins them
ThreadOrder == <<"castorama", "manomano", "leroymerlin">>

Terminal == {"finished", "failed"}

FileOf(w) == SessionFileKey(ScraperName(w), wsid[w])

\* kw_lower in category_urls (CastoramaScraper.scrape_keyword), kw in
\* base_category_urls (LeroymerlinScraper.run)
HasCategoryUrl(w, kw) ==
    \/ w = "castorama" /\ kw \in {"Carrelage", "Peinture"}
    \/ w = "leroymerlin" /\ kw \in {"Douches", "Carrelage"}

\* the characters of a keyword
KeywordChars(kw) ==
    CASE kw = "Peinture" -> <<"P", "e", "i", "n", "t", "u", "r", "e">>
      [] kw = "Lavabos" -> <<"L", "a", "v", "a", "b", "o", "s">>
      [] kw = "Toilettes" -> <<"T", "o", "i", "l", "e", "t", "t", "e", "s">>
      [] kw = "Meubles-lavabos" -> <<"M", "e", "u", "b", "l", "e", "s", "-", "l", "a",
             "v", "a", "b", "o", "s">>
      [] kw = "Douches" -> <<"D", "o", "u", "c", "h", "e", "s">>
      [] kw = "Carrelage" -> <<"C", "a", "r", "r", "e", "l", "a", "g", "e">>
      [] kw = "Éviers" -> <<"É", "v", "i", "e", "r", "s">>
      [] kw = "Vanités" -> <<"V", "a", "n", "i", "t", "é", "s">>

\* the site the product URLs of a scraper are on
SiteChars(w) ==
    CASE w = "castorama" ->
             <<"h", "t", "t", "p", "s", ":", "/", "/", "w",
             "w", "w", ".", "c", "a", "s", "t", "o", "r", "a", "m", "a", ".", "f", "r">>
      [] w = "leroymerlin" ->
             <<"h", "t", "t", "p", "s", ":", "/", "/", "w",
             "w", "w", ".", "l", "e", "r", "o", "y", "m", "e", "r", "l", "i", "n", ".",
             "f", "r">>
      [] w = "manomano" ->
             <<"h", "t", "t", "p", "s", ":", "/", "/", "w",
             "w", "w", ".", "m", "a", "n", "o", "m", "a", "n", "o", ".", "f", "r">>

\* The pages of the model.  A listing names its products keyword/link/page/i, each
\* on a URL of its own on the site; every product page gives the same data, with
\* the price the way each site writes it.  A record product_parser leaves is
\* written twice: with the values as data_processor reads them (strings by their
\* characters), and with the values as append_products_to_session writes them.

\* product_dict["product_name"] of product i of a page
PageName(kw, link, page, i) ==
    KeywordChars(kw) \o <<"/", ToString(link), "/", ToString(page), "/", ToString(i)>>

PageUrl(w, kw, link, page, i) == SiteChars(w) \o <<"/">> \o PageName(kw, link, page, i)

\* product_dict["product_id"]
PageSku(page, i) == <<ToString(page), ToString(i)>>

\* Str as the characters of a str
Chars(text) ==
    CASE text = "price"            -> <<"p", "r", "i", "c", "e">>
      [] text = "original_price"   -> <<"o", "r", "i", "g", "i", "n", "a", "l", "_",
                                       "p", "r", "i", "c", "e">>
      [] text = "unit_price"       -> <<"u", "n", "i", "t", "_", "p", "r", "i", "c", "e">>
      [] text = "unit_measurement" -> <<"u", "n", "i", "t", "_", "m", "e", "a", "s", "u",
                                       "r", "e", "m", "e", "n", "t">>
      [] text = "unit"             -> <<"u", "n", "i", "t">>
      [] text = "currency"         -> <<"c", "u", "r", "r", "e", "n", "c", "y">>
      [] text = "EUR"              -> <<"E", "U", "R">>
      [] text = "9.99"             -> <<"9", ".", "9", "9">>
      [] text = "9 999.99"         -> <<"9", NoBreakSpace, "9", "9", "9", ".", "9", "9">>

\* price of CastoramaScraper.product_parser: the offer of the listing (a price of
\* four digits is written with a no-break space), the was-price of the page
CastoramaPrice ==
    DictValue(<< <<Chars("price"), Chars("9 999.99")>>, <<Chars("original_price"), <<"9">>>>,
                 <<Chars("unit_price"), <<>>>>, <<Chars("currency"), Chars("EUR")>> >>)

\* price of LeroymerlinScraper.product_parser
LeroymerlinPrice ==
    DictValue(<< <<Chars("price"), <<"9">>>>, <<Chars("original_price"), <<"9">>>>,
                 <<Chars("unit_measurement"),
                   DictValue(<< <<Chars("price"), <<>>>>, <<Chars("unit"), <<>>>> >>)>>,
                 <<Chars("currency"), Chars("EUR")>> >>)

\* price of ManomanoScraper.product_parser: floats, None for what the page lacks
ManomanoPrice ==
    DictValue(<< <<Chars("price"), FloatValue(Chars("9.99"))>>,
                 <<Chars("original_price"), FloatValue(Chars("9.99"))>>,
                 <<Chars("unit_measurement"),
                   DictValue(<< <<Chars("price"), NoneValue>>, <<Chars("unit"), NoneValue>> >>)>>,
                 <<Chars("currency"), Chars("EUR")>> >>)

\* measurement = {"length": ..., "width": ..., "unit": ...} of a page without the
\* table rows the parser looks for
BlankMeasurement == [t |-> "dict", v |-> [length |-> "", width |-> "", unit |-> ""]]

\* keywords whose product pages give the brand as a JSON number
\* (LeroymerlinScraper and ManomanoScraper keep whatever value the JSON has)
NumberBrandKeywords == {"Douches"}

\* What product_parser can leave for a product: "listed" is a product whose page
\* was not read (the fields set before the request), "read" one whose page was
\* read, "read_number_brand" one whose page gives a number as brand.
PageShapes(w, kw) ==
    LET number_brand == IF kw \in NumberBrandKeywords THEN {"read_number_brand"} ELSE {}
    IN  CASE w = "castorama"   -> {"listed", "read"}
          [] w = "leroymerlin" -> {"listed", "read"} \cup number_brand
          [] w = "manomano"    -> {"read"} \cup number_brand

\* product_dict of CastoramaScraper.product_parser
CastoramaProduct(kw, link, page, i, shape) ==
    LET listed == [product_id |-> PageSku(page, i),
                   product_name |-> PageName(kw, link, page, i),
                   description |-> <<>>]
    IN  IF shape = "listed" THEN listed
        ELSE listed @@
             [brand |-> [t |-> "str", v |-> <<"b">>], category |-> kw,
              price |-> CastoramaPrice,
              measurement |-> [t |-> "dict", v |-> [width |-> "10", unit |-> "cm"]],
              unit_count |-> <<>>, rating |-> <<>>, totalRating |-> <<>>,
              product_url |-> PageUrl("castorama", kw, link, page, i)]

\* product_dict of LeroymerlinScraper.product_parser
LeroymerlinProduct(kw, link, page, i, shape) ==
    LET listed == [product_id |-> PageSku(page, i),
                   product_name |-> PageName(kw, link, page, i),
                   brand |-> IF shape = "read_number_brand" THEN [t |-> "int", v |-> 7]
                             ELSE [t |-> "str", v |-> <<"b">>],
                   category |-> kw]
    IN  IF shape = "listed" THEN listed
        ELSE listed @@
             [price |-> LeroymerlinPrice, measurement |-> BlankMeasurement,
              unit_count |-> <<>>, rating |-> <<>>, rating_count |-> <<>>,
              category_path |-> <<>>,
              product_url |-> PageUrl("leroymerlin", kw, link, page, i),
              image_url |-> [t |-> "list", v |-> <<>>], description |-> <<>>]

\* the dict ManomanoScraper.product_parser appends
ManomanoProduct(kw, link, page, i, shape) ==
    [product_id |-> PageSku(page, i),
     product_name |-> PageName(kw, link, page, i),
     brand |-> IF shape = "read_number_brand" THEN [t |-> "int", v |-> 7]
               ELSE [t |-> "str", v |-> <<"b">>],
     category |-> kw, price |-> ManomanoPrice, measurement |-> BlankMeasurement,
     unit_count |-> <<" ">>, rating |-> <<>>, rating_count |-> <<>>,
     catgroy_path |-> <<>>, product_url |-> PageUrl("manomano", kw, link, page, i),
     image_url |-> [t |-> "list", v |-> <<>>], description |-> <<>>]

\* the record product_parser leaves for product i of a page, as data_processor
\* reads it
RawPageProduct(w, kw, link, page, i, shape) ==
    CASE w = "castorama"   -> CastoramaProduct(kw, link, page, i, shape)
      [] w = "leroymerlin" -> LeroymerlinProduct(kw, link, page, i, shape)
      [] w = "manomano"    -> ManomanoProduct(kw, link, page, i, shape)

\* the same names and URLs as text
PageNameText(kw, link, page, i) ==
    kw \o "/" \o ToString(link) \o "/" \o ToString(page) \o "/" \o ToString(i)

PageUrlText(w, kw, link, page, i) ==
    "https://www." \o w \o ".fr/" \o PageNameText(kw, link, page, i)

\* the same prices as append_products_to_session writes them
CastoramaSessionPrice ==
    PyDict([price |-> PyStr("9 999.99"), original_price |-> PyStr("9"),
            unit_price |-> PyStr(""), currency |-> PyStr("EUR")])

LeroymerlinSessionPrice ==
    PyDict([price |-> PyStr("9"), original_price |-> PyStr("9"),
            unit_measurement |-> PyNestedDict([price |-> PyStr(""), unit |-> PyStr("")],
                                              "{'price': '', 'unit': ''}"),
            currency |-> PyStr("EUR")])

ManomanoSessionPrice ==
    PyDict([price |-> PyFloat("9.99"), original_price |-> PyFloat("9.99"),
            unit_measurement |-> PyNestedDict([price |-> PyNone, unit |-> PyNone],
                                              "{'price': None, 'unit': None}"),
            currency |-> PyStr("EUR")])

BlankSessionMeasurement ==
    PyDict([length |-> PyStr(""), width |-> PyStr(""), unit |-> PyStr("")])

\* a product product_parser returns, as append_products_to_session sees it: the
\* record RawPageProduct gives for the same arguments
PageProduct(w, kw, link, page, i, shape) ==
    LET listed == [product_id |-> PyStr(ToString(page) \o ToString(i)),
                   product_name |-> PyStr(PageNameText(kw, link, page, i))]
        brand  == [brand |-> IF shape = "read_number_brand" THEN PyInt(7) ELSE PyStr("b"),
                   category |-> PyStr(kw)]
        blank  == [unit_count |-> PyStr(""), rating |-> PyStr(""),
                   product_url |-> PyStr(PageUrlText(w, kw, link, page, i)),
                   description |-> PyStr("")]
    IN  CASE w = "castorama" ->
                 IF shape = "listed" THEN listed @@ [description |-> PyStr("")]
                 ELSE listed @@ brand @@ blank @@
                      [price |-> CastoramaSessionPrice,
                       measurement |-> PyDict([width |-> PyStr("10"), unit |-> PyStr("cm")]),
                       totalRating |-> PyStr("")]
          [] w = "leroymerlin" ->
                 IF shape = "listed" THEN listed @@ brand
                 ELSE listed @@ brand @@ blank @@
                      [price |-> LeroymerlinSessionPrice,
                       measurement |-> BlankSessionMeasurement,
                       rating_count |-> PyStr(""), category_path |-> PyStr(""),
                       image_url |-> PyList(<<>>)]
          [] w = "manomano" ->
                 listed @@ brand @@ [unit_count |-> PyStr(" ")] @@ blank @@
                 [price |-> ManomanoSessionPrice, measurement |-> BlankSessionMeasurement,
                  rating_count |-> PyStr(""), catgroy_path |-> PyStr(""),
                  image_url |-> PyList(<<>>)]

\* the list product_parser returns for a page: shapes[i] is what it left for
\* product i
PageBatch(w, kw, link, page, shapes) ==
    [i \in 1..Len(shapes) |-> PageProduct(w, kw, link, page, i, shapes[i])]

\* the non-empty lists product_parser can return for a page
PageBatches(w, kw, link, page) ==
    {PageBatch(w, kw, link, page, shapes) :
        shapes \in SeqsUpTo(PageShapes(w, kw), MaxPageProducts) \ {<<>>}}

\* the page of the product was read: product_dict["price"] is set
IsDetailed(product) == "price" \in DOMAIN product

\* The numbers of log_error calls product_parser can make while it collects
\* `products`.  LeroymerlinScraper logs once for every product it could not read the
\* page of, and once more when a later script of the listing raises, which ends the
\* parse with the products collected so far; CastoramaScraper can log once for a
\* product whose page it read ("product JSON decoding"); ManomanoScraper logs nothing.
ParseErrors(w, products) ==
    LET read   == Cardinality({i \in 1..Len(products) : IsDetailed(products[i])})
        unread == Len(products) - read
    IN  CASE w = "leroymerlin" -> {unread, unread + 1}
          [] w = "castorama"   -> 0..read
          [] w = "manomano"    -> {0}

\* product_parser catches a JSON decoding error, logs it and returns no product
\* (ManomanoScraper.product_parser lets it through)
ParserCatches(w) == w # "manomano"

\* LeroymerlinScraper extends all_products before it appends, the others after
ExtendsFirst(w) == w = "leroymerlin"

\* only run_castorama and run_leroymerlin test response.status_code
ChecksStatus(w) == w # "manomano"

NoLink == [i |-> 0, n |-> 0]

\* the products the three workers have parsed so far
Collected ==
    LET Parsed(w) == Len(all_products[w]) + IF ExtendsFirst(w) THEN 0 ELSE Len(wbatch[w])
    IN  Parsed("castorama") + Parsed("manomano") + Parsed("leroymerlin")

InitPar ==
    /\ mpc = "start_1" /\ crashed = FALSE /\ faults = 0
    /\ wpc = [w \in Workers |-> "unstarted"]
    /\ wsid = [w \in Workers |-> "unset"]
    /\ wkeywords = [w \in Workers |-> ParKeywords(w)]
    /\ wkw = [w \in Workers |-> 0]
    /\ wlink = [w \in Workers |-> NoLink]
    /\ wpage = [w \in Workers |-> 0]
    /\ wbatch = [w \in Workers |-> <<>>]
    /\ wdata = [w \in Workers |-> <<>>]
    /\ all_products = [w \in Workers |-> <<>>]
    /\ committed = [w \in Workers |-> <<>>]
    /\ reported = [w \in Workers |-> 0]
    /\ FilesIdle /\ OMIdle /\ DedupIdle /\ RunIdle

MainPos(kind, i) == IF i > Len(ThreadOrder) THEN (IF kind = "start" THEN "join_1" ELSE "done")
                    ELSE IF kind = "start"
                    THEN (CASE i = 1 -> "start_1" [] i = 2 -> "start_2" [] i = 3 -> "start_3")
                    ELSE (CASE i = 1 -> "join_1" [] i = 2 -> "join_2" [] i = 3 -> "join_3")

\* castorama_thread.start(); manomano_thread.start(); leroymerlin_thread.start()
StartThread ==
    \E i \in 1..Len(ThreadOrder) :
        /\ ~crashed /\ mpc = MainPos("start", i)
        /\ wpc' = [wpc EXCEPT ![ThreadOrder[i]] = "construct"]
        /\ mpc' = MainPos("start", i + 1)
        /\ UNCHANGED <<wsid, wkw, wlink, wpage, wbatch, wdata, all_products, committed,
                       reported, crashed, faults, fileVars, wkeywords, ddVars,
                   omVars, runVars>>

\* (a variant of join that does not wait)
JoinReady_nowait(w) == TRUE

\* Thread.join returns once the thread has ended
JoinReady(w) == wpc[w] \in Terminal

\* castorama_thread.join(); manomano_thread.join(); leroymerlin_thread.join()
JoinThread ==
    \E i \in 1..Len(ThreadOrder) :
        /\ ~crashed /\ mpc = MainPos("join", i)
        /\ JoinReady(ThreadOrder[i])
        /\ mpc' = MainPos("join", i + 1)
        /\ UNCHANGED <<wpc, wsid, wkw, wlink, wpage, wbatch, wdata, all_products, committed,
                       reported, crashed, faults, fileVars, wkeywords, ddVars,
                   omVars, runVars>>

\* the environment fails n times in this step: a file operation or a request that
\* raises, a page the parser stumbles over (however many errors it logs for it)
Faults(n) == faults + n <= MaxFaults /\ faults' = faults + n

\* an exception of the constructor reaches the except clause of run_x, which
\* prints it and ends the thread
ConstructorRaises(w) ==
    /\ Faults(1)
    /\ wpc' = [wpc EXCEPT ![w] = "failed"]
    /\ reported' = [reported EXCEPT ![w] = @ + 1]

\* XScraper() up to the first file access of initialize_session_files: session_id,
\* then open(json_filepath, 'w'), which creates the file empty
Construct(w) ==
    /\ ~crashed /\ wpc[w] = "construct"
    /\ \E sid \in ParSessionIds, ok \in BOOLEAN :
          IF ok
          THEN /\ wsid' = [wsid EXCEPT ![w] = sid]
               /\ jsonFiles' = (SessionFileKey(ScraperName(w), sid) :> Truncated) @@ jsonFiles
               /\ wpc' = [wpc EXCEPT ![w] = "init_dump"]
               /\ UNCHANGED <<reported, faults>>
          ELSE /\ ConstructorRaises(w)
               /\ UNCHANGED <<wsid, jsonFiles>>
    /\ UNCHANGED <<mpc, wkw, wlink, wpage, wbatch, wdata, all_products, committed, crashed,
                   csvFiles, wkeywords, ddVars,
                   omVars, runVars>>

\* json.dump(json_metadata, f) and the close of the file
InitDump(w) ==
    /\ ~crashed /\ wpc[w] = "init_dump"
    /\ \E ok \in BOOLEAN :
          IF ok
          THEN /\ jsonFiles' = [jsonFiles EXCEPT
                                   ![FileOf(w)] = NewSessionDoc(ScraperName(w), wsid[w])]
               /\ wpc' = [wpc EXCEPT ![w] = "init_csv"]
               /\ UNCHANGED <<reported, faults>>
          ELSE /\ ConstructorRaises(w)
               /\ UNCHANGED jsonFiles
    /\ UNCHANGED <<mpc, wsid, wkw, wlink, wpage, wbatch, wdata, all_products, committed,
                   crashed, csvFiles, wkeywords, ddVars,
                   omVars, runVars>>

\* with open(csv_filepath, 'w', newline='', encoding='utf-8') as f: the open creates
\* the file empty
InitCsv(w) ==
    /\ ~crashed /\ wpc[w] = "init_csv"
    /\ \E ok \in BOOLEAN :
          IF ok
          THEN /\ csvFiles' = (FileOf(w) :> <<>>) @@ csvFiles
               /\ wpc' = [wpc EXCEPT ![w] = "init_header"]
               /\ UNCHANGED <<reported, faults>>
          ELSE /\ ConstructorRaises(w)
               /\ UNCHANGED csvFiles
    /\ UNCHANGED <<mpc, wsid, wkw, wlink, wpage, wbatch, wdata, all_products, committed,
                   crashed, jsonFiles, wkeywords, ddVars,
                   omVars, runVars>>

\* writer.writeheader() and the close of the file, which flushes the header; the
\* constructor returns and run() enters its keyword loop.  A failure leaves the
\* file empty.
InitHeader(w) ==
    /\ ~crashed /\ wpc[w] = "init_header"
    /\ \E ok \in BOOLEAN :
          IF ok
          THEN /\ csvFiles' = [csvFiles EXCEPT ![FileOf(w)] = NewSessionCsv]
               /\ wpc' = [wpc EXCEPT ![w] = "begin"]
               /\ wkw' = [wkw EXCEPT ![w] = 1]
               /\ UNCHANGED <<reported, faults>>
          ELSE /\ ConstructorRaises(w)
               /\ UNCHANGED <<csvFiles, wkw>>
    /\ UNCHANGED <<mpc, wsid, wlink, wpage, wbatch, wdata, all_products, committed,
                   crashed, jsonFiles, wkeywords, ddVars,
                   omVars, runVars>>

\* the for loop of run(): the next keyword, or the end of run() and of the thread
AfterKeyword(w) ==
    /\ wlink' = [wlink EXCEPT ![w] = NoLink]
    /\ IF wkw[w] < LastKeyword(w)
       THEN /\ wkw' = [wkw EXCEPT ![w] = @ + 1]
            /\ wpc' = [wpc EXCEPT ![w] = "begin"]
       ELSE /\ wpc' = [wpc EXCEPT ![w] = "finished"]
            /\ UNCHANGED wkw

\* the page loop of the first of n listing URLs
StartListings(w, n) ==
    /\ wlink' = [wlink EXCEPT ![w] = [i |-> 1, n |-> n]]
    /\ wpage' = [wpage EXCEPT ![w] = 1]
    /\ wpc' = [wpc EXCEPT ![w] = "fetch"]
    /\ UNCHANGED wkw

\* The start of a keyword.  A keyword with a category URL is scraped through the
\* listing URLs its category page gives: CastoramaScraper pages through each
\* sub-category, or through the category itself when there is none;
\* LeroymerlinScraper pages through each link and through nothing when there is
\* none.  The request of the category page can raise, which the except clause of
\* run() logs.  Any other keyword is one search listing.
BeginKeyword(w) ==
    /\ ~crashed /\ wpc[w] = "begin"
    /\ IF HasCategoryUrl(w, Keyword(w))
       THEN \E links \in 0..MaxLinks, raises \in BOOLEAN :
               IF raises
               THEN /\ links = 0
                    /\ Faults(1)
                    /\ reported' = [reported EXCEPT ![w] = @ + 1]
                    /\ AfterKeyword(w)
                    /\ UNCHANGED wpage
               ELSE /\ UNCHANGED <<reported, faults>>
                    /\ IF links = 0 /\ w = "leroymerlin"
                       THEN AfterKeyword(w) /\ UNCHANGED wpage
                       ELSE StartListings(w, IF links = 0 THEN 1 ELSE links)
       ELSE /\ StartListings(w, 1)
            /\ UNCHANGED <<reported, faults>>
    /\ UNCHANGED <<mpc, wsid, wbatch, wdata, all_products, committed, crashed,
                   fileVars, wkeywords, ddVars,
                   omVars, runVars>>

\* break out of the page loop: the next listing URL of the keyword, or the next
\* keyword
EndListing(w) ==
    IF wlink[w].i < wlink[w].n
    THEN /\ wlink' = [wlink EXCEPT ![w].i = @ + 1]
         /\ wpage' = [wpage EXCEPT ![w] = 1]
         /\ wpc' = [wpc EXCEPT ![w] = "fetch"]
         /\ UNCHANGED wkw
    ELSE AfterKeyword(w) /\ UNCHANGED wpage

\* only LeroymerlinScraper reads the pagination marker (nav.mc-pagination)
HasPaginationMarker(w) == w = "leroymerlin"

\* (a variant of the loop that leaves the listing after every page)
NextPage_fixed_count(w, is_last_page) == EndListing(w)

\* the end of the loop body: break on the last page of the marker, else page += 1
NextPage(w, is_last_page) ==
    IF is_last_page
    THEN EndListing(w)
    ELSE /\ wpage' = [wpage EXCEPT ![w] = @ + 1]
         /\ wpc' = [wpc EXCEPT ![w] = "fetch"]
         /\ UNCHANGED <<wkw, wlink>>

\* (a variant of the except clause that logs nothing)
log_append_error_silent(w) == 0

\* except Exception as e: self.logger.log_error(e, "append_products_incrementally"):
\* the number of errors logged
log_append_error(w) == 1

\* all_products.extend(products) and the end of the loop body
AfterAppend(w, products) ==
    /\ all_products' = IF ExtendsFirst(w) THEN all_products
                       ELSE [all_products EXCEPT ![w] = @ \o products]
    /\ \E is_last_page \in BOOLEAN :
          /\ is_last_page => HasPaginationMarker(w)
          /\ NextPage(w, is_last_page)

\* One pass of the page loop up to the read of the session JSON file: fetch and
\* parse the page; leave the listing on a non-200 status, on no products and on a
\* parse the parser gave up without a product, leave the keyword through the except
\* clause of run() on an exception; otherwise enter append_products_incrementally
\* and read the file.  An open(json_filepath, 'r') that fails (OSError) and a file
\* json.load cannot read end the append there: the exception is logged,
\* all_products is extended and the loop body ends.
Fetch(w) ==
    /\ ~crashed /\ wpc[w] = "fetch"
    /\ \E outcome \in {"products", "empty", "non200", "undecodable", "raise"} :
          /\ outcome = "non200" => ChecksStatus(w)
          /\ outcome = "undecodable" => ParserCatches(w)
          /\ IF outcome \in {"empty", "non200"}
             THEN /\ EndListing(w)
                  /\ UNCHANGED <<wbatch, wdata, all_products, reported, faults>>
             ELSE IF outcome = "undecodable"
             THEN /\ EndListing(w)
                  /\ Faults(1)
                  /\ reported' = [reported EXCEPT ![w] = @ + 1]
                  /\ UNCHANGED <<wbatch, wdata, all_products>>
             ELSE IF outcome = "raise"
             THEN /\ AfterKeyword(w)
                  /\ Faults(1)
                  /\ reported' = [reported EXCEPT ![w] = @ + 1]
                  /\ UNCHANGED <<wpage, wbatch, wdata, all_products>>
             ELSE \E products \in PageBatches(w, Keyword(w), wlink[w].i, wpage[w]) :
                  \E logged \in ParseErrors(w, products), open_fails \in BOOLEAN :
                  /\ wpage[w] <= MaxPages /\ Collected + Len(products) <= MaxCollected
                  /\ Faults((IF logged = 0 THEN 0 ELSE 1) + (IF open_fails THEN 1 ELSE 0))
                  /\ IF JsonReadable(jsonFiles, FileOf(w)) /\ ~open_fails
                     THEN /\ wbatch' = [wbatch EXCEPT ![w] = products]
                          /\ wdata' = [wdata EXCEPT ![w] = jsonFiles[FileOf(w)]]
                          /\ all_products' = IF ExtendsFirst(w)
                                             THEN [all_products EXCEPT ![w] = @ \o products]
                                             ELSE all_products
                          /\ reported' = [reported EXCEPT ![w] = @ + logged]
                          /\ wpc' = [wpc EXCEPT ![w] = "open_w"]
                          /\ UNCHANGED <<wkw, wlink, wpage>>
                     ELSE \* open(json_filepath, 'r') or json.load raised: logged by
                          \* append_products_incrementally; no file is touched
                          /\ reported' = [reported EXCEPT ![w] = @ + logged + log_append_error(w)]
                          /\ all_products' = [all_products EXCEPT ![w] = @ \o products]
                          /\ \E is_last_page \in BOOLEAN :
                                /\ is_last_page => HasPaginationMarker(w)
                                /\ NextPage(w, is_last_page)
                          /\ UNCHANGED <<wbatch, wdata>>
    /\ UNCHANGED <<mpc, wsid, committed, crashed, fileVars, wkeywords, ddVars,
                   omVars, runVars>>

\* with open(json_filepath, 'w', encoding='utf-8') as f: the file is emptied.  An
\* open that fails (OSError) leaves the file as it was: the exception leaves
\* append_products_to_session, append_products_incrementally logs it, all_products
\* is extended and the loop body ends.
OpenW(w) ==
    /\ ~crashed /\ wpc[w] = "open_w"
    /\ \E io \in {"ok", "open_fails"} :
          IF io = "ok"
          THEN /\ jsonFiles' = [jsonFiles EXCEPT ![FileOf(w)] = Truncated]
               /\ wpc' = [wpc EXCEPT ![w] = "dump"]
               /\ UNCHANGED <<wkw, wlink, wpage, wbatch, wdata, all_products, reported,
                              faults>>
          ELSE /\ Faults(1)
               /\ reported' = [reported EXCEPT ![w] = @ + log_append_error(w)]
               /\ wbatch' = [wbatch EXCEPT ![w] = <<>>]
               /\ wdata' = [wdata EXCEPT ![w] = <<>>]
               /\ AfterAppend(w, wbatch[w])
               /\ UNCHANGED jsonFiles
    /\ UNCHANGED <<mpc, wsid, committed, crashed, csvFiles, wkeywords, ddVars, omVars,
                   runVars>>

\* json.dump(data, f) and the close of the JSON file.  When the write fails the
\* exception leaves append_products_to_session before the CSV part: the except
\* clause of append_products_incrementally logs it, all_products is extended and the
\* loop body ends.
Dump(w) ==
    /\ ~crashed /\ wpc[w] = "dump"
    /\ \E io \in {"ok", "write_fails"} :
          IF io = "ok"
          THEN /\ jsonFiles' = [jsonFiles EXCEPT ![FileOf(w)] = AppendedDoc(wdata[w], wbatch[w])]
               /\ committed' = [committed EXCEPT ![w] = @ \o wbatch[w]]
               /\ wpc' = [wpc EXCEPT ![w] = "csv"]
               /\ UNCHANGED <<wkw, wlink, wpage, wbatch, wdata, all_products, reported,
                              faults>>
          ELSE /\ Faults(1)
               /\ reported' = [reported EXCEPT ![w] = @ + log_append_error(w)]
               /\ wbatch' = [wbatch EXCEPT ![w] = <<>>]
               /\ wdata' = [wdata EXCEPT ![w] = <<>>]
               /\ AfterAppend(w, wbatch[w])
               /\ UNCHANGED <<jsonFiles, committed>>
    /\ UNCHANGED <<mpc, wsid, crashed, csvFiles, wkeywords, ddVars,
                   omVars, runVars>>

\* The CSV part of append_products_to_session: the header is read, the file is
\* opened with 'a' and the rows are written up to the first that raises; the close
\* flushes them.  An open that fails (OSError) writes no row.  Either exception is
\* logged by append_products_incrementally; then all_products is extended and the
\* loop body ends.
CsvAppend(w) ==
    /\ ~crashed /\ wpc[w] = "csv"
    /\ \E io \in {"ok", "open_fails"} :
          IF io = "ok"
          THEN /\ csvFiles' = CsvAppended(csvFiles, FileOf(w), wbatch[w])
               /\ reported' = [reported EXCEPT ![w] =
                                  @ + IF CsvRaises(csvFiles, FileOf(w), wbatch[w])
                                      THEN log_append_error(w) ELSE 0]
               /\ UNCHANGED faults
          ELSE /\ Faults(1)
               /\ reported' = [reported EXCEPT ![w] = @ + log_append_error(w)]
               /\ UNCHANGED csvFiles
    /\ wbatch' = [wbatch EXCEPT ![w] = <<>>]
    /\ wdata' = [wdata EXCEPT ![w] = <<>>]
    /\ AfterAppend(w, wbatch[w])
    /\ UNCHANGED <<mpc, wsid, committed, crashed, jsonFiles, wkeywords, ddVars,
                   omVars, runVars>>

WorkerStep(w) ==
    \/ Construct(w) \/ InitDump(w) \/ InitCsv(w) \/ InitHeader(w)
    \/ BeginKeyword(w) \/ Fetch(w) \/ OpenW(w) \/ Dump(w) \/ CsvAppend(w)

\* the process is killed
Crash ==
    /\ ~crashed /\ mpc # "done"
    /\ crashed' = TRUE
    /\ UNCHANGED <<mpc, wpc, wsid, wkw, wlink, wpage, wbatch, wdata, all_products, committed,
                   reported, faults, fileVars, wkeywords, ddVars,
                   omVars, runVars>>

NextPar ==
    \/ StartThread
    \/ JoinThread
    \/ \E w \in Workers : Construct(w)
    \/ \E w \in Workers : InitDump(w)
    \/ \E w \in Workers : InitCsv(w)
    \/ \E w \in Workers : InitHeader(w)
    \/ \E w \in Workers : BeginKeyword(w)
    \/ \E w \in Workers : Fetch(w)
    \/ \E w \in Workers : OpenW(w)
    \/ \E w \in Workers : Dump(w)
    \/ \E w \in Workers : CsvAppend(w)
    \/ Crash

SpecPar == InitPar /\ [][NextPar]_vars

\* ---- properties over SpecPar

HasFile(w) == FileOf(w) \in DOMAIN jsonFiles

\* the constructor of the worker's scraper returned
Constructed(w) == wpc[w] \in {"begin", "fetch", "open_w", "dump", "csv", "finished"}

\* C1: after a crash, the session JSON file of every worker is a complete document
\* holding either the products committed before the interrupted append or those
\* followed by the batch of that append; it is never truncated.
C1_CrashAtomicity ==
    crashed =>
        \A w \in Workers :
            Constructed(w) =>
                /\ jsonFiles[FileOf(w)].valid
                /\ jsonFiles[FileOf(w)].products \in {committed[w], committed[w] \o wbatch[w]}

\* the workers have pairwise distinct session files
DistinctFiles ==
    \A w1, w2 \in Workers :
        (w1 # w2 /\ HasFile(w1) /\ HasFile(w2)) => FileOf(w1) # FileOf(w2)

\* between the read and the rewrite of an append nobody else wrote the file: the
\* document the worker read is still what the file holds when it opens it for
\* writing, and while it writes the file is the one it emptied
ReadCopyCurrent(w) ==
    /\ wpc[w] = "open_w" => jsonFiles[FileOf(w)] = wdata[w]
    /\ wpc[w] \in {"open_w", "dump"} => wdata[w].products = committed[w]
    /\ wpc[w] = "dump" => jsonFiles[FileOf(w)] = Truncated

\* what the session JSON file of a worker holds: every batch its worker appended, in
\* order, and nothing else; it is without a complete document only while its own
\* worker is writing it or after its own worker reported an error
AllBatchesPresent(w) ==
    HasFile(w) =>
        IF jsonFiles[FileOf(w)].valid
        THEN jsonFiles[FileOf(w)].products = committed[w]
        ELSE wpc[w] \in {"init_dump", "dump"} \/ reported[w] > 0

\* a step that changes a session file of worker w is a step of w
OwnWriterOnly(w) ==
    LET changed(files, files_after) ==
            \/ FileOf(w) \in DOMAIN files_after \ DOMAIN files
            \/ FileOf(w) \in DOMAIN files /\ files_after[FileOf(w)] # files[FileOf(w)]
    IN  (wsid[w] # "unset" /\ (changed(jsonFiles, jsonFiles') \/ changed(csvFiles, csvFiles')))
            => wpc'[w] # wpc[w]

\* the only step that leaves the session JSON file of worker w without a complete
\* document is a write of w that failed: json.dump raised, in the step that ends
\* the write, and w reported it
LostOnlyByOwnFailedWrite(w) ==
    (HasFile(w) /\ ~jsonFiles'[FileOf(w)].valid /\ wpc'[w] \notin {"init_dump", "dump"}) =>
        \/ ~jsonFiles[FileOf(w)].valid /\ wpc[w] \notin {"init_dump", "dump"}
        \/ /\ wpc[w] \in {"init_dump", "dump"}
           /\ jsonFiles[FileOf(w)] = Truncated /\ jsonFiles'[FileOf(w)] = Truncated
           /\ faults' = faults + 1 /\ reported'[w] = reported[w] + 1

\* C4: the workers write to pairwise distinct session files, only its own worker
\* ever changes a session file, no write falls between the read and the rewrite of
\* an append, and every batch a worker appended is in its file, in order; the one
\* step that takes batches out of a file is the failed write of that file's own
\* worker, never a step of another worker.
C4_NoLostUpdates ==
    /\ [](DistinctFiles /\ \A w \in Workers : ReadCopyCurrent(w) /\ AllBatchesPresent(w))
    /\ [][\A w \in Workers : OwnWriterOnly(w) /\ LostOnlyByOwnFailedWrite(w)]_vars

\* all three workers ran interleaved to the end and each file holds the batch its
\* worker appended
W_C4_AllFilesComplete ==
    /\ mpc = "done"
    /\ \A w \in Workers :
          /\ wpc[w] = "finished" /\ committed[w] # <<>>
          /\ jsonFiles[FileOf(w)].valid
          /\ jsonFiles[FileOf(w)].products = committed[w]
          /\ all_products[w] = committed[w]

MainWaits == mpc = "done" => \A w \in Workers : wpc[w] \in Terminal

NotBlocked ==
    \A w \in Workers :
        (~crashed /\ wpc[w] \notin Terminal \cup {"unstarted"}) => ENABLED WorkerStep(w)

Raised(v) == (wpc'[v] = "failed" /\ wpc[v] # "failed") \/ reported'[v] > reported[v]

Untouched(w) ==
    /\ wpc'[w] = wpc[w] /\ all_products'[w] = all_products[w] /\ committed'[w] = committed[w]
    /\ HasFile(w) => jsonFiles'[FileOf(w)] = jsonFiles[FileOf(w)]
    /\ FileOf(w) \in DOMAIN csvFiles => csvFiles'[FileOf(w)] = csvFiles[FileOf(w)]

FailureIsolated == \A v \in Workers : Raised(v) => \A w \in Workers \ {v} : Untouched(w)

\* C5: a worker that raises changes nothing of the other workers (position,
\* in-memory products, session files), no live worker is ever without an enabled
\* step, and main is done only when all three threads have ended.
C5_WorkerIsolation == [](MainWaits /\ NotBlocked) /\ [][FailureIsolated]_vars

\* main returned although manomano failed in its constructor; the other two finished
W_C5_OneFailedOthersDone ==
    /\ mpc = "done" /\ wpc["manomano"] = "failed"
    /\ \A w \in {"castorama", "leroymerlin"} :
          /\ wpc[w] = "finished"
          /\ jsonFiles[FileOf(w)].products # <<>>
          /\ all_products[w] = jsonFiles[FileOf(w)].products

(***************************************************************************)
(* SpecRun: DonizoMaterialScraper.run (src/scraper.py), entered on an      *)
(* object that holds the attributes __init__ assigns (scraper.py:35-45).   *)
(* scrape_supplier builds the scraper of a supplier and runs it: these are *)
(* the steps of a worker of SpecPar, with the same pages and the same      *)
(* failures of the file system and of the network; run() takes the records *)
(* the scraper left in all_products.                                       *)
(***************************************************************************)
\* the suppliers arguments of the model; "brico" has no scraper class
RunSupplierLists == {<<"castorama", "manomano">>, <<"brico", "leroymerlin">>,
                     <<"leroymerlin">>, <<>>}

\* the categories arguments of the model
RunCategoryLists == {<<"Peinture">>, <<"Douches">>}

KnownSuppliers == {"castorama", "leroymerlin", "manomano"}

\* the products a scraper run with the categories of the run can collect
PageArgs(w) ==
    {a \in [kw : Range(wkeywords[w]), link : 1..MaxLinks, page : 1..MaxPages,
            i : 1..MaxPageProducts, shape : {"listed", "read", "read_number_brand"}] :
        a.shape \in PageShapes(w, a.kw)}

\* raw_products = scraper.all_products: the records product_parser left, as
\* data_processor reads them
RawProducts(w) ==
    [k \in 1..Len(all_products[w]) |->
        LET a == CHOOSE a \in PageArgs(w) :
                     PageProduct(w, a.kw, a.link, a.page, a.i, a.shape) = all_products[w][k]
        IN  RawPageProduct(w, a.kw, a.link, a.page, a.i, a.shape)]

\* supplier_name.title()
SupplierTitle(supplier_name) ==
    CASE supplier_name = "castorama"   -> "Castorama"
      [] supplier_name = "leroymerlin" -> "Leroymerlin"
      [] supplier_name = "manomano"    -> "Manomano"
      [] supplier_name = "brico"       -> "Brico"

\* structured_product of _process_scraper_output
structured_product(product, supplier_name) ==
    With(process_product(product, supplier_name), LAMBDA processed_product :
        [id       |-> processed_product.id,
         name     |-> Get(processed_product, "product_name", <<>>),
         category |-> Get(processed_product, "category", ""),
         supplier |-> SupplierTitle(supplier_name),
         price    |-> [amount |-> Get(processed_product, "price", <<>>),
                       currency |-> Get(processed_product, "price_currency", "EUR"),
                       unit |-> "piece"],
         url      |-> Get(processed_product, "product_url", <<>>),
         brand    |-> Get(processed_product, "brand", <<>>),
         raw_data |-> product])

\* product.get('name', 'Unknown') of the except clause
ErrorProductName(product) == Get(product, "name", <<"Unknown">>)

\* the for loop of _process_scraper_output: the structured products and the error
\* entries of the records whose processing raised
RECURSIVE StructureLoop(_, _, _, _, _)
StructureLoop(raw_products, supplier_name, i, structured_products, errors) ==
    IF i > Len(raw_products)
    THEN [structured_products |-> structured_products, errors |-> errors]
    ELSE IF ProcessRaises(raw_products[i])
         THEN StructureLoop(raw_products, supplier_name, i + 1, structured_products,
                            Append(errors, [supplier |-> supplier_name,
                                            product  |-> ErrorProductName(raw_products[i]),
                                            error    |-> ProcessError(raw_products[i])]))
         ELSE StructureLoop(raw_products, supplier_name, i + 1,
                            Append(structured_products,
                                   structured_product(raw_products[i], supplier_name)),
                            errors)

\* _process_scraper_output(scraper, supplier_name)
process_scraper_output(raw_products, supplier_name) ==
    IF raw_products = <<>> THEN [structured_products |-> <<>>, errors |-> <<>>]
    ELSE With(StructureLoop(raw_products, supplier_name, 1, <<>>, <<>>), LAMBDA looped :
             [structured_products |-> remove_duplicates(looped.structured_products),
              errors |-> looped.errors])

\* (a variant whose except clause records nothing)
supplier_failure_errors_silent(errors, supplier_name) == errors

\* the except clause of scrape_supplier
supplier_failure_errors(errors, supplier_name) ==
    Append(errors, [supplier |-> supplier_name, error |-> "Exception"])

\* the category counts after the products of one supplier
RECURSIVE CountCategories(_, _, _)
CountCategories(categories, products, i) ==
    IF i > Len(products) THEN categories
    ELSE LET category == products[i].category
         IN  CountCategories((category :> (Get(categories, category, 0) + 1)) @@ categories,
                             products, i + 1)

\* sum(len(products) for products in all_data.values())
RECURSIVE SumLens(_, _)
SumLens(all_data, keys) ==
    IF keys = {} THEN 0
    ELSE LET k == CHOOSE x \in keys : TRUE
         IN  Len(all_data[k]) + SumLens(all_data, keys \ {k})

\* output_data of save_consolidated_data
ConsolidatedDoc(all_data) ==
    [metadata |-> [scraped_at |-> "now", total_products |-> SumLens(all_data, DOMAIN all_data),
                   suppliers |-> DOMAIN all_data, file_version |-> "1.0"],
     products_by_supplier |-> all_data]

\* self.stats of __init__
InitialStats ==
    [start_time |-> "datetime", total_products |-> 0, suppliers |-> EmptyDict,
     categories |-> EmptyDict, errors |-> <<>>]

InitRun ==
    /\ rpc = "loop" /\ r_idx = 1
    /\ r_suppliers \in RunSupplierLists
    /\ r_calls = <<>> /\ r_log = <<>>
    /\ stats = InitialStats
    /\ run_products = <<>> /\ by_supplier = EmptyDict
    /\ consolidated = NotCalled /\ summary = NotCalled
    /\ dd_in = [products |-> <<>>, cfg |-> TRUE] /\ dd_out = NotCalled /\ dd_op = "none"
    /\ \E config \in ProcessorConfigs : data_processor = DataProcessorInit(config)
    /\ \E categories \in RunCategoryLists : wkeywords = [w \in Workers |-> categories]
    /\ FilesIdle /\ OMIdle /\ WorkersIdle

\* the supplier of the current pass of `for supplier in suppliers`
Supplier == r_suppliers[r_idx]

\* The except clause of scrape_supplier and the rest of the pass of run(): the
\* error is logged and recorded, scrape_supplier returns [], run() stores it.
SupplierFailure ==
    /\ stats' = [stats EXCEPT !.errors = supplier_failure_errors(@, Supplier)]
    /\ r_log' = Append(r_log, "scraping")
    /\ by_supplier' = (Supplier :> <<>>) @@ by_supplier
    /\ r_calls' = Append(r_calls, [supplier |-> Supplier, raised |-> TRUE,
                                   raw_products |-> <<>>])
    /\ r_idx' = r_idx + 1
    /\ rpc' = "loop"
    /\ UNCHANGED run_products

\* The start of a pass of `for supplier in suppliers`: scrape_supplier up to the
\* constructor of the scraper.  _get_scraper_instance raises ValueError for a
\* supplier without scraper class, which ends the pass in the except clause.
CallScrapeSupplier ==
    /\ rpc = "loop" /\ r_idx <= Len(r_suppliers)
    /\ IF Supplier \in KnownSuppliers
       THEN /\ wpc' = [wpc EXCEPT ![Supplier] = "construct"]
            /\ rpc' = "scraping"
            /\ UNCHANGED <<r_idx, r_calls, r_log, stats, run_products, by_supplier>>
       ELSE /\ SupplierFailure
            /\ UNCHANGED wpc
    /\ UNCHANGED <<r_suppliers, consolidated, summary, mpc, wsid, wkeywords, wkw, wlink,
                   wpage, wbatch, wdata, all_products, committed, reported, crashed, faults,
                   fileVars, ddVars, omVars>>

\* scraper_class() and scraper.run(categories): a step of the scraper
ScraperStep == rpc = "scraping" /\ WorkerStep(Supplier)

\* the constructor of the scraper raised: the except clause of scrape_supplier
SupplierFailed ==
    /\ rpc = "scraping" /\ wpc[Supplier] = "failed"
    /\ SupplierFailure
    /\ UNCHANGED <<r_suppliers, consolidated, summary, fileVars, ddVars, omVars, parVars>>

\* scraper.run returned: _process_scraper_output, the statistics of the supplier
\* and the rest of the pass of run()
ProcessOutput ==
    /\ rpc = "scraping" /\ wpc[Supplier] = "finished"
    /\ \E raw_products \in {RawProducts(Supplier)} :
       \E out \in {process_scraper_output(raw_products, Supplier)} :
       LET products == out.structured_products
       IN  /\ r_calls' = Append(r_calls, [supplier |-> Supplier, raised |-> FALSE,
                                          raw_products |-> raw_products])
           /\ stats' = [stats EXCEPT
                  !.errors = @ \o out.errors,
                  !.suppliers = (Supplier :>
                      [products_scraped |-> Len(products),
                       categories |-> {products[i].category : i \in 1..Len(products)}])
                      @@ @,
                  !.categories = CountCategories(@, products, 1)]
           /\ r_log' = r_log \o [i \in 1..Len(out.errors) |-> "processing product"]
           /\ run_products' = run_products \o products
           /\ by_supplier' = (Supplier :> products) @@ by_supplier
    /\ r_idx' = r_idx + 1
    /\ rpc' = "loop"
    /\ UNCHANGED <<r_suppliers, consolidated, summary, fileVars, ddVars, omVars, parVars>>

\* "Final processing": remove_duplicates, total_products, end_time, duration
FinalProcessing ==
    /\ rpc = "loop" /\ r_idx > Len(r_suppliers)
    /\ run_products' = remove_duplicates(run_products)
    /\ stats' = [end_time |-> "datetime", duration |-> "seconds"] @@
                [stats EXCEPT !.total_products = Len(remove_duplicates(run_products))]
    /\ rpc' = "save"
    /\ UNCHANGED <<r_suppliers, r_idx, r_calls, r_log, by_supplier, consolidated, summary,
                   fileVars, ddVars, omVars, parVars>>

\* (a variant of _save_results without its try/except)
after_save_failure_propagating == "aborted"

\* where run() continues when _save_results met an exception: the except clause
\* logs it and run() goes on to _log_summary
after_save_failure == "summary"

\* the keys of stats that hold datetime objects
DatetimeKeys == {"start_time", "end_time"}

\* json.dump raises TypeError on the datetime values of stats
ReportSerializable(s) == DOMAIN s \cap DatetimeKeys = {}

\* _save_results: save_consolidated_data, then generate_scraping_report
SaveResults ==
    /\ rpc = "save"
    /\ \E io \in {"ok", "write_fails"} :
          /\ consolidated' = IF io = "ok" THEN Returned(ConsolidatedDoc(by_supplier))
                             ELSE consolidated
          /\ IF io = "ok" /\ ReportSerializable(stats)
             THEN rpc' = "summary" /\ UNCHANGED r_log
             ELSE rpc' = after_save_failure /\ r_log' = Append(r_log, "saving results")
    /\ UNCHANGED <<r_suppliers, r_idx, r_calls, stats, run_products, by_supplier, summary,
                   fileVars, ddVars, omVars, parVars>>

\* _log_summary: reads stats['total_products'] and stats['duration']
LogSummary ==
    /\ rpc = "summary"
    /\ IF {"total_products", "duration"} \subseteq DOMAIN stats
       THEN /\ summary' = Returned([total_products |-> stats.total_products,
                                    duration |-> stats.duration,
                                    suppliers |-> Cardinality(DOMAIN stats.suppliers),
                                    categories |-> Cardinality(DOMAIN stats.categories),
                                    errors |-> Len(stats.errors)])
            /\ rpc' = "done"
       ELSE /\ rpc' = "aborted" /\ UNCHANGED summary
    /\ UNCHANGED <<r_suppliers, r_idx, r_calls, r_log, stats, run_products, by_supplier,
                   consolidated, fileVars, ddVars, omVars, parVars>>

NextRun ==
    \/ CallScrapeSupplier \/ ScraperStep \/ SupplierFailed \/ ProcessOutput
    \/ FinalProcessing \/ SaveResults \/ LogSummary

SpecRun == InitRun /\ [][NextRun]_vars

\* run() is sequential code: it takes its next step whenever it has one
FairSpecRun == SpecRun /\ WF_vars(NextRun)

\* ---- properties over SpecRun

RunDone ==
    /\ rpc = "done" /\ summary.done
    /\ {"total_products", "duration"} \subseteq DOMAIN stats
    /\ stats.total_products = Len(run_products)
    /\ summary.value.total_products = stats.total_products

\* C6: whatever records raise, whatever suppliers raise and whether or not saving
\* fails, run() never aborts and eventually finishes with stats.total_products and
\* stats.duration set and _log_summary executed.
C6_RunReachesSummary == [](rpc # "aborted") /\ <>RunDone

\* a finished run in which a supplier raised, a record raised and the save failed
W_C6_DoneAfterAllFailures ==
    /\ RunDone
    /\ \E i \in 1..Len(r_calls) : r_calls[i].raised
    /\ \E i \in 1..Len(stats.errors) : "product" \in DOMAIN stats.errors[i]
    /\ ~consolidated.done
    /\ \E i \in 1..Len(r_log) : r_log[i] = "saving results"

\* the step of the loop in which scraping the current supplier raised
SupplierRaised ==
    /\ Len(r_calls') = Len(r_calls) + 1
    /\ r_calls'[Len(r_calls')].raised

\* what that step leaves: one more error, naming the supplier; no product of it
FailureRecorded ==
    LET supplier == r_suppliers[r_idx] IN
    /\ Len(stats'.errors) = Len(stats.errors) + 1
    /\ SubSeq(stats'.errors, 1, Len(stats.errors)) = stats.errors
    /\ stats'.errors[Len(stats'.errors)].supplier = supplier
    /\ by_supplier'[supplier] = <<>>
    /\ run_products' = run_products
    /\ rpc' = "loop" /\ r_idx' = r_idx + 1

\* the suppliers scraped so far are the first r_idx - 1 of the list, in order, and
\* the loop is left only when all of them have been scraped
AttemptedInOrder ==
    /\ [i \in 1..Len(r_calls) |-> r_calls[i].supplier] = SubSeq(r_suppliers, 1, r_idx - 1)
    /\ rpc \notin {"loop", "scraping"} => Len(r_calls) = Len(r_suppliers)

\* C7: when scraping a supplier raises, exactly one entry naming that supplier is
\* appended to stats.errors, the supplier contributes an empty product list, and
\* every later supplier of the list is still scraped.
C7_SupplierFailureHandled == []AttemptedInOrder /\ [][SupplierRaised => FailureRecorded]_vars

\* a finished run whose first supplier raised and whose second one gave products
W_C7_LaterSupplierScraped ==
    /\ rpc = "done" /\ Len(r_calls) = 2
    /\ r_calls[1].raised /\ ~r_calls[2].raised
    /\ r_calls[1].supplier # r_calls[2].supplier
    /\ by_supplier[r_calls[1].supplier] = <<>>
    /\ by_supplier[r_calls[2].supplier] # <<>>
    /\ Len(stats.errors) = 1 /\ stats.errors[1].supplier = r_calls[1].supplier

\* the raw records the products of a list were built from
RawDataOf(products) == [i \in 1..Len(products) |-> products[i].raw_data]

\* C8: a raw record without product_name, product_url or price is dropped, has an
\* entry in the run's error list, and is in no product list the run produces.
C8_InvalidRecordDroppedAndReported ==
    rpc = "done" =>
        \A c \in 1..Len(r_calls) : \A k \in 1..Len(r_calls[c].raw_products) :
            LET record == r_calls[c].raw_products[k] IN
            ~validate_product(record) =>
                /\ \E e \in 1..Len(stats.errors) :
                      /\ stats.errors[e].supplier = r_calls[c].supplier
                      /\ "product" \in DOMAIN stats.errors[e]
                /\ record \notin Range(RawDataOf(run_products))
                /\ \A supplier \in DOMAIN by_supplier :
                      record \notin Range(RawDataOf(by_supplier[supplier]))

\* the records of a list whose processing does not raise, in order
RECURSIVE NonRaising(_)
NonRaising(raw_products) ==
    IF raw_products = <<>> THEN <<>>
    ELSE (IF ProcessRaises(Head(raw_products)) THEN <<>> ELSE <<Head(raw_products)>>)
         \o NonRaising(Tail(raw_products))

\* the step of the loop in which a supplier was scraped and a record of it raised
ScrapedWithBadRecord ==
    /\ Len(r_calls') = Len(r_calls) + 1
    /\ ~r_calls'[Len(r_calls')].raised
    /\ \E k \in 1..Len(r_calls'[Len(r_calls')].raw_products) :
          ProcessRaises(r_calls'[Len(r_calls')].raw_products[k])

\* C9: when processing a record of a batch raises, every other record is still
\* processed and the other records appear in the output in their original order
\* (one product per distinct url and name).
C9_BadRecordKeepsOthers ==
    [][ScrapedWithBadRecord =>
          RawDataOf(by_supplier'[r_suppliers[r_idx]]) =
              FirstsByPair(NonRaising(r_calls'[Len(r_calls')].raw_products), 1)]_vars

\* the (url, name) pair of a raw record
UrlNamePair(record) ==
    <<Get(record, "product_url", <<>>), Get(record, "product_name", <<>>)>>

\* the records of all scrape_supplier calls whose processing did not raise
RECURSIVE ProcessedRecords(_, _)
ProcessedRecords(calls, i) ==
    IF i > Len(calls) THEN <<>>
    ELSE NonRaising(calls[i].raw_products) \o ProcessedRecords(calls, i + 1)

\* C11: in the orchestrated run a processed product is removed only when an earlier
\* one has the same url and the same name: per supplier and over the whole run, as
\* many products survive as there are distinct (url, name) pairs among the
\* processed records.
C11_RunDedupByUrlAndName ==
    rpc = "done" =>
        /\ \A c \in 1..Len(r_calls) :
              Len(by_supplier[r_calls[c].supplier]) =
                  Cardinality({UrlNamePair(r) : r \in Range(NonRaising(r_calls[c].raw_products))})
        /\ Len(run_products) =
              Cardinality({UrlNamePair(r) : r \in Range(ProcessedRecords(r_calls, 1))})

\* C23: at the end of a run the total_products of the consolidated dataset's
\* metadata equals the number of products in its products_by_supplier mapping and
\* equals stats.total_products.
C23_CountsConsistent ==
    (rpc = "done" /\ consolidated.done) =>
        /\ consolidated.value.metadata.total_products =
              SumLens(consolidated.value.products_by_supplier,
                      DOMAIN consolidated.value.products_by_supplier)
        /\ consolidated.value.metadata.total_products = stats.total_products

\* ---- further properties over SpecPar

\* the scheduler runs every thread that can take a step
FairSpecPar ==
    /\ SpecPar
    /\ WF_vars(StartThread) /\ WF_vars(JoinThread)
    /\ \A w \in Workers : WF_vars(WorkerStep(w))

\* the batches product_parser can return for the page worker w is at
CurrentBatches(w) ==
    IF wpc[w] \in {"open_w", "dump", "csv"} THEN {wbatch[w]}
    ELSE PageBatches(w, Keyword(w), wlink[w].i, wpage[w])

\* the append of worker w ends with this step
AppendEnds(w) ==
    wpc[w] \in {"open_w", "dump", "csv"} /\ wpc'[w] \notin {"open_w", "dump", "csv"}

\* a step in which append_products_to_session raised for the batch of worker w:
\* at the read of the JSON file (an open that fails, a file json.load cannot
\* read), at the open for the rewrite, at the rewrite, or at the CSV file (not
\* every product got its row)
AppendFailedStep(w) ==
    \/ wpc[w] = "fetch" /\ wpc'[w] # "open_w" /\ all_products'[w] # all_products[w]
    \/ wpc[w] \in {"open_w", "dump"} /\ AppendEnds(w)
    \/ /\ wpc[w] = "csv" /\ AppendEnds(w)
       /\ Len(csvFiles'[FileOf(w)]) < Len(csvFiles[FileOf(w)]) + Len(wbatch[w])

\* the session files of worker w are what they were
FilesKept(w) ==
    /\ jsonFiles'[FileOf(w)] = jsonFiles[FileOf(w)]
    /\ csvFiles'[FileOf(w)] = csvFiles[FileOf(w)]

EndsWith(seq, tail) ==
    /\ Len(seq) >= Len(tail)
    /\ SubSeq(seq, Len(seq) - Len(tail) + 1, Len(seq)) = tail

IsPrefix(pre, seq) == Len(pre) <= Len(seq) /\ SubSeq(seq, 1, Len(pre)) = pre

FailedAppendContained(w) ==
    AppendFailedStep(w) =>
        /\ \E batch \in CurrentBatches(w) :
              /\ EndsWith(all_products'[w], batch)
              /\ \E logged \in (IF wpc[w] = "fetch" THEN ParseErrors(w, batch) ELSE {0}) :
                    reported'[w] = reported[w] + 1 + logged
        /\ IsPrefix(all_products[w], all_products'[w])
        /\ wpc'[w] # "failed"
        /\ wpc[w] \in {"fetch", "open_w"} => FilesKept(w)
        /\ committed'[w] = committed[w]
        /\ ~HasPaginationMarker(w) =>
              /\ wpc'[w] = "fetch" /\ wpage'[w] = wpage[w] + 1
              /\ wkw'[w] = wkw[w] /\ wlink'[w] = wlink[w]

\* C26: when the append of a batch fails, wherever it fails, the worker reports the
\* error (once, next to what the parser reported for the page), the batch is the
\* tail of its all_products, the products collected before are unchanged, a failure
\* before the rewrite leaves the session files as they were, and the page loop goes
\* on as after a successful append (the next page of the same listing, or the end
\* of the listing on a page the pagination marker calls the last).
C26_AppendFailureContained == [][\A w \in Workers : FailedAppendContained(w)]_vars

\* castorama finished with both pages in memory although both appends failed
W_C26_ContinuedAfterFailedAppends ==
    /\ wpc["castorama"] = "finished"
    /\ Len(all_products["castorama"]) = MaxPages
    /\ committed["castorama"] = <<>>
    /\ reported["castorama"] = MaxPages
    /\ jsonFiles[FileOf("castorama")] = Truncated

\* no append is pending while a page is fetched, and the products in memory that
\* no append wrote to the JSON file belong to appends that failed and were reported
AppendedBeforeNextFetch(w) ==
    wpc[w] \in {"begin", "fetch", "finished"} =>
        /\ wbatch[w] = <<>> /\ wdata[w] = <<>>
        /\ Range(committed[w]) \subseteq Range(all_products[w])
        /\ all_products[w] # committed[w] => reported[w] > 0

\* the step that ends the append of a page's batch: the JSON file holds the batch
\* at its end and the CSV file got one row for each product of it, or the append
\* raised and the worker reported it; an append that got as far as the CSV file
\* has put the batch at the end of the JSON file
AppendCompleted(w) ==
    AppendEnds(w) =>
        /\ wbatch[w] # <<>>
        /\ wpc[w] = "csv" =>
               /\ jsonFiles'[FileOf(w)].valid
               /\ EndsWith(jsonFiles'[FileOf(w)].products, wbatch[w])
               /\ EndsWith(committed'[w], wbatch[w])
        /\ \/ /\ wpc[w] = "csv"
              /\ Len(csvFiles'[FileOf(w)]) = Len(csvFiles[FileOf(w)]) + Len(wbatch[w])
              /\ reported'[w] = reported[w]
           \/ reported'[w] = reported[w] + 1

\* the next page is fetched only from the end of the append of this page's batch
\* (or from the read that failed, which ends it at once)
FetchAfterAppend(w) ==
    (wpc[w] # "begin" /\ wpc'[w] = "fetch" /\ wpage'[w] = wpage[w] + 1) =>
        \/ AppendEnds(w)
        \/ wpc[w] = "fetch" /\ AppendFailedStep(w)

\* the worker left the page loop of its listing URL
LeftListing(w) ==
    \/ wpc'[w] \in {"begin", "finished"}
    \/ wpc'[w] = "fetch" /\ wlink'[w].i = wlink[w].i + 1 /\ wpage'[w] = 1

PageLoopStep(w) ==
    /\ AppendCompleted(w) /\ FetchAfterAppend(w)
    \* a page with products starts an append of exactly that batch
    /\ (wpc[w] = "fetch" /\ wpc'[w] = "open_w") =>
           /\ wbatch'[w] \in CurrentBatches(w) /\ wbatch'[w] # <<>>
           /\ wpage'[w] = wpage[w] /\ wlink'[w] = wlink[w] /\ wkw'[w] = wkw[w]
    \* after the append the loop goes to the next page of the listing ...
    /\ (AppendEnds(w) /\ ~LeftListing(w)) =>
           /\ wpc'[w] = "fetch" /\ wpage'[w] = wpage[w] + 1
           /\ wkw'[w] = wkw[w] /\ wlink'[w] = wlink[w]
    \* ... and leaves the listing only on the pagination marker
    /\ (AppendEnds(w) /\ LeftListing(w)) => HasPaginationMarker(w)
    \* a page without products (or a non-200 response) ends the listing at once
    /\ (wpc[w] = "fetch" /\ LeftListing(w)) =>
           \/ all_products'[w] = all_products[w]
           \/ HasPaginationMarker(w) /\ reported'[w] > reported[w]

\* the worker does not stay in its keyword and page loops forever
PageLoopEnds(w) ==
    []<>(crashed \/ wpc[w] \notin {"begin", "fetch", "open_w", "dump", "csv"})

\* C27: within a worker a page's batch goes through the append (into the JSON and
\* the CSV file, or to a reported failure) before the next page is fetched; the
\* loop of a listing goes on page by page and stops at the first
\* page without products, non-200 response or exhausted pagination marker; with a
\* source that runs out of pages and a process that is not killed, every worker
\* that started its page loop ends it.
C27_PageLoopProtocol ==
    /\ [](\A w \in Workers : AppendedBeforeNextFetch(w))
    /\ [][\A w \in Workers : PageLoopStep(w)]_vars
    /\ \A w \in Workers : PageLoopEnds(w)

\* castorama fetched MaxPages pages with products, each appended before the next
\* fetch, and stopped at the first empty page
W_C27_StoppedAtEmptyPage ==
    /\ wpc["castorama"] = "finished" /\ wpage["castorama"] = MaxPages + 1
    /\ Len(committed["castorama"]) = MaxPages
    /\ jsonFiles[FileOf("castorama")].products = committed["castorama"]
    /\ Len(csvFiles[FileOf("castorama")]) = 1 + MaxPages
    /\ reported["castorama"] = 0

\* C28: at every page boundary and at the end of run(), the products list of the
\* worker's session JSON file equals the worker's in-memory all_products.
C28_FileEqualsMemory ==
    \A w \in Workers :
        (HasFile(w) /\ wpc[w] \in {"begin", "fetch", "finished"}) =>
            /\ jsonFiles[FileOf(w)].valid
            /\ jsonFiles[FileOf(w)].products = all_products[w]

\* ---- further properties over SpecOM

\* a step that appended a non-empty, serializable batch to an initialized file
AppendedToJson ==
    /\ om_last'.op = "append" /\ om_last'.batch # <<>>
    /\ om_last'.outcome # "raised_json"
    /\ jsonFiles' # jsonFiles

\* the rows csv.DictReader gives for the CSV file of a key
RowsRead(csv, key) == IF key \in DOMAIN csv THEN ReadBack(csv[key]) ELSE <<>>

\* C25: every such append returns without error and adds one CSV row per product
\* of the batch: read back, the file has one more row per product, in which each
\* nested mapping is found under its parent_child columns and each list under its
\* column as the items joined with "; ", also for a product with a non-empty nested
\* mapping.
C25_CsvRowPerProduct ==
    [][AppendedToJson =>
          LET key   == om_last'.key
              batch == om_last'.batch
              old   == RowsRead(csvFiles, key)
              new   == RowsRead(csvFiles', key)
          IN  /\ om_last'.outcome = "returned"
              /\ Len(new) = Len(old) + Len(batch)
              /\ \A i \in 1..Len(old) : new[i] = old[i]
              /\ \A i \in 1..Len(batch) :
                    \A f \in RowKeys(batch[i]) :
                        /\ f \in DOMAIN new[Len(old) + i]
                        /\ new[Len(old) + i][f] = FlattenRow(batch[i])[f]]_vars

\* ---- further properties over SpecDedup

\* the products no earlier product of the list shares the product_url of, in order
RECURSIVE FirstsByUrl(_, _)
FirstsByUrl(products, i) ==
    IF i > Len(products) THEN <<>>
    ELSE (IF \E j \in 1..(i - 1) :
                Get(products[j], "product_url", <<>>) = Get(products[i], "product_url", <<>>)
          THEN <<>> ELSE <<products[i]>>) \o FirstsByUrl(products, i + 1)

\* C12: remove_duplicates collapses the products that share a product_url: of
\* several products with the same product_url only the first is kept, even when
\* their product_name values differ.
C12_DedupByUrlOnly ==
    (dd_op = "remove_duplicates" /\ dd_out.done)
        => dd_out.value = FirstsByUrl(dd_in.products, 1)

\* the products whose key no earlier product of the list has, in order
FirstOccurrences(products) ==
    LET kept == {i \in 1..Len(products) :
                    \A j \in 1..(i - 1) : product_key(products[j]) # product_key(products[i])}
        nth(n) == CHOOSE i \in kept : Cardinality({j \in kept : j < i}) = n - 1
    IN  [n \in 1..Cardinality(kept) |-> products[nth(n)]]

\* C13: remove_duplicates is idempotent and keeps order: applying it to its own
\* result changes nothing, and the result is the first occurrence of every key, in
\* input order.
C13_DedupIdempotentOrdered ==
    (dd_op = "remove_duplicates" /\ dd_out.done)
        => /\ remove_duplicates(dd_out.value) = dd_out.value
           /\ dd_out.value = FirstOccurrences(dd_in.products)

\* a list of two different products with one key: the first kept, the second dropped
W_C13_SecondDroppedFirstKept ==
    /\ dd_op = "remove_duplicates" /\ dd_out.done
    /\ Len(dd_in.products) = 2 /\ dd_in.products[1] # dd_in.products[2]
    /\ dd_out.value = <<dd_in.products[1]>>

\* C14: after process_products_batch (process, validate, deduplicate) no two
\* products of the result have the same id.
C14_IdUniqueInDataset ==
    (dd_op = "process_products_batch" /\ dd_out.done /\ dd_in.cfg)
        => \A i, j \in 1..Len(dd_out.value) :
              dd_out.value[i].id = dd_out.value[j].id => i = j

(***************************************************************************)
(* SpecFn: single calls of the pure functions of DataProcessor             *)
(* (src/utils/data_processor.py), on inputs drawn from bounded sets.       *)
(***************************************************************************)
FnSuppliers == {"castorama", "manomano"}
FnUrls == {<<>>, <<"a">>, <<"_">>}

\* sku_id values: none, a short one, and ones that look like a URL hash
FnSkus == {<<>>, <<"s">>} \cup {Md5Hex8(u) : u \in FnUrls}

IdInputs ==
    [supplier : FnSuppliers, product_url : FnUrls, sku_id : FnSkus]

CallGenerateProductId ==
    /\ dd_op = "generate_product_id" /\ ~dd_out.done
    /\ dd_out' = Returned(generate_product_id(dd_in.supplier, dd_in.product_url, dd_in.sku_id))
    /\ UNCHANGED <<dd_in, dd_op, data_processor, fileVars, omVars, parVars, runVars>>

\* C15: generate_product_id gives "{supplier}_{sku_id}" for a non-empty sku_id and
\* "{supplier}_" plus the 8 first hex characters of the URL hash for an empty one,
\* the same id for the same arguments, and different ids for any two different
\* sku_id values (the empty one included) of one supplier and URL.
C15_IdDeterministicSkuSensitive ==
    (dd_op = "generate_product_id" /\ dd_out.done) =>
        /\ dd_in.sku_id # <<>> =>
              dd_out.value = SupplierChars(dd_in.supplier) \o <<"_">> \o dd_in.sku_id
        /\ dd_in.sku_id = <<>> =>
              dd_out.value = SupplierChars(dd_in.supplier) \o <<"_">> \o Md5Hex8(dd_in.product_url)
        /\ \A sku_id \in FnSkus :
              generate_product_id(dd_in.supplier, dd_in.product_url, sku_id) = dd_out.value
                  => sku_id = dd_in.sku_id

\* price strings: a digit, the two separators, and a currency symbol
PriceChars == {"9", ".", ",", "E"}

PriceInputs == [price : SeqsUpTo(PriceChars, MaxPriceLen), currency : {"EUR", "USD"}]

CallNormalizePrice ==
    /\ dd_op = "normalize_price" /\ ~dd_out.done
    /\ dd_out' = Returned(normalize_price_dict(dd_in.price, dd_in.currency))
    /\ UNCHANGED <<dd_in, dd_op, data_processor, fileVars, omVars, parVars, runVars>>

\* C16: the price normalize_price returns holds only digits and at most one ".".
C16_PriceDigitsAndOneDot ==
    (dd_op = "normalize_price" /\ dd_out.done) =>
        /\ Range(dd_out.value.price) \subseteq Digits \cup {"."}
        /\ Cardinality({i \in 1..Len(dd_out.value.price) : dd_out.value.price[i] = "."}) <= 1

\* the price the separator rule gives for the characters left after stripping
SeparatorRule(clean) ==
    IF "," \in Range(clean) /\ "." \in Range(clean)
    THEN IF RFind(clean, ",") > RFind(clean, ".")
         THEN Replace(Replace(clean, ".", <<>>), ",", <<".">>)
         ELSE Replace(clean, ",", <<>>)
    ELSE IF "," \in Range(clean)
    THEN IF Len(clean) - RFind(clean, ",") <= 2
         THEN Replace(clean, ",", <<".">>)
         ELSE Replace(clean, ",", <<>>)
    ELSE clean

\* C17: normalize_price strips everything but digits, "." and ","; with both
\* separators the rightmost kind becomes the decimal point and the other kind is
\* removed; with "," alone it becomes "." when at most 2 characters follow the last
\* "," and is removed otherwise; input without digits gives ""; the currency is
\* the one given.
C17_SeparatorRule ==
    (dd_op = "normalize_price" /\ dd_out.done) =>
        /\ dd_out.value.price_currency = dd_in.currency
        /\ dd_out.value.price =
              IF Range(dd_in.price) \cap Digits = {} THEN <<>>
              ELSE SeparatorRule(SelectSeq(dd_in.price, LAMBDA c : c \in Digits \cup {".", ","}))

\* C18: normalize_price applied to the price it returned gives the same price and
\* currency again.
C18_PriceIdempotent ==
    (dd_op = "normalize_price" /\ dd_out.done) =>
        normalize_price_dict(dd_out.value.price, dd_in.currency) = dd_out.value

\* a price with both separators and a symbol, which normalize_price changed
W_C18_SeparatorsRewritten ==
    /\ dd_op = "normalize_price" /\ dd_out.done
    /\ {",", ".", "E", "9"} \subseteq Range(dd_in.price)
    /\ dd_out.value.price # dd_in.price
    /\ dd_out.value.price # <<>>
    /\ "," \notin Range(dd_out.value.price)

\* brand strings: those of the repository's test, two with a label, and all short
\* strings over a few characters
BrandChars == {"a", "B", " ", "/"}

BrandInputs ==
    {[t |-> "str", v |-> v] :
        v \in SeqsUpTo(BrandChars, MaxBrandLen) \cup
              {<<"B", "R", "A", "N", "D", " ", "N", "A", "M", "E">>,
              <<"b", "r", "a", "n", "d", " ", "n", "a", "m", "e">>,
              <<"b", "R", "a", "N", "d", " ", "N", "a", "M", "e">>,
              <<"N", "/", "A">>,
              <<"b", "r", "a", "n", "d", ":", " ", "a", "b">>,
              <<"M", "a", "r", "q", "u", "e", ":", " ", " ", "a", " ", "b">>}}

CallNormalizeBrand ==
    /\ dd_op = "normalize_brand" /\ ~dd_out.done
    /\ dd_out' = Returned(normalize_brand(dd_in))
    /\ UNCHANGED <<dd_in, dd_op, data_processor, fileVars, omVars, parVars, runVars>>

Unknown == <<"U", "n", "k", "n", "o", "w", "n">>

\* C19: normalize_brand returns "Unknown" for the empty string and for "N/A", and
\* the title-cased brand for any other input.
C19_BrandTitleOrUnknown ==
    (dd_op = "normalize_brand" /\ dd_out.done) =>
        IF dd_in.v \in {<<>>, <<"N", "/", "A">>}
        THEN dd_out.value = Unknown
        ELSE dd_out.value = Title(Strip(StripBrandLabel(dd_in.v)))

\* product_name and description values
AvailabilityTexts ==
    {<<>>,
    <<"x">>,
    <<"E", "n">>,
    <<"s", "t", "o", "c", "k">>,
    <<"I", "n", "d", "i", "s", "p", "o", "n", "i", "b", "l", "e">>,
    <<"R", "U", "P", "T", "U", "R", "E">>,
    <<"L", "i", "m", "i", "t", "e", "d">>,
    <<"i", "n", " ", "s", "t", "o", "c", "k">>,
    <<"É", "p", "u", "i", "s", "é">>,
    <<"r", "u", "p", "t", "u", "r", "e", " ", "l", "i", "m", "i", "t", "e", "d">>,
    <<"D", "e", "r", "n", "i", "è", "r", "e", "s">>,
    <<"p", "i", "è", "c", "e", "s">>,
    <<"A", "v", "a", "i", "l", "a", "b", "l", "e", " ", "l", "i", "m", "i", "t", "é">>}

AvailabilityInputs ==
    {OptField(hasName, "product_name", n) @@ OptField(hasDescription, "description", d) :
        hasName \in BOOLEAN, hasDescription \in BOOLEAN,
        n \in AvailabilityTexts, d \in AvailabilityTexts}

CallDetermineAvailability ==
    /\ dd_op = "determine_availability" /\ ~dd_out.done
    /\ dd_out' = Returned(determine_availability(dd_in))
    /\ UNCHANGED <<dd_in, dd_op, data_processor, fileVars, omVars, parVars, runVars>>

\* the lower-cased name and description of the call contain a phrase of the class
HasPhraseOf(status) ==
    \E i \in 1..Len(availability_indicators) :
        /\ availability_indicators[i].status = status
        /\ \E phrase \in availability_indicators[i].indicators :
              Contains(LowerStr(Get(dd_in, "product_name", <<>>) \o <<" ">> \o
                                Get(dd_in, "description", <<>>)), phrase)

\* C20: determine_availability returns in_stock, out_of_stock, limited or unknown:
\* in_stock when a phrase of in_stock occurs in the lower-cased name and
\* description, else out_of_stock when one of out_of_stock occurs, else limited
\* when one of limited occurs, and unknown exactly when no phrase occurs.
C20_AvailabilityPriority ==
    (dd_op = "determine_availability" /\ dd_out.done) =>
        /\ dd_out.value \in {"in_stock", "out_of_stock", "limited", "unknown"}
        /\ dd_out.value = "in_stock" <=> HasPhraseOf("in_stock")
        /\ dd_out.value = "out_of_stock" <=>
              (~HasPhraseOf("in_stock") /\ HasPhraseOf("out_of_stock"))
        /\ dd_out.value = "limited" <=>
              (~HasPhraseOf("in_stock") /\ ~HasPhraseOf("out_of_stock") /\ HasPhraseOf("limited"))
        /\ dd_out.value = "unknown" <=>
              (~HasPhraseOf("in_stock") /\ ~HasPhraseOf("out_of_stock") /\ ~HasPhraseOf("limited"))

\* phrases of two classes in one text, in upper case: the earlier class is returned
W_C20_EarlierClassWins ==
    /\ dd_op = "determine_availability" /\ dd_out.done
    /\ HasPhraseOf("out_of_stock") /\ HasPhraseOf("limited")
    /\ dd_out.value = "out_of_stock"
    /\ Get(dd_in, "product_name", <<>>) # LowerStr(Get(dd_in, "product_name", <<>>))

\* the out-of-stock indicators of the repository's test
OutOfStockTexts ==
    {<<"r", "u", "p", "t", "u", "r", "e", " ", "d", "e", " ", "s", "t", "o", "c", "k">>,
     <<"i", "n", "d", "i", "s", "p", "o", "n", "i", "b", "l", "e">>,
     <<"o", "u", "t", " ", "o", "f", " ", "s", "t", "o", "c", "k">>,
     <<"é", "p", "u", "i", "s", "é">>}

\* C21: a record whose name contains "rupture de stock", "indisponible",
\* "out of stock" or "épuisé" (and that has no description) is classified
\* out_of_stock by determine_availability.
C21_OutOfStockIndicators ==
    (/\ dd_op = "determine_availability" /\ dd_out.done
     /\ "description" \notin DOMAIN dd_in
     /\ \E phrase \in OutOfStockTexts :
           Contains(LowerStr(Get(dd_in, "product_name", <<>>)), phrase))
        => dd_out.value = "out_of_stock"

\* image URL strings: empty, valid, without scheme or host, with a leading blank,
\* and with a bracket in the host
ImageUrlStrs ==
    {<<>>,
     <<"h", ":", "/", "/", "h">>,
     <<"h", ":", "/", "/", "1">>,
     <<"h", ":", "/", "h">>,
     <<"/", "/", "h">>,
     <<"h">>,
     <<" ", "h", ":", "/", "/", "h">>,
     <<"h", ":", "/", "/", "[">>,
     <<"h", ":", "/", "/", "[", ":", ":", "1", "]">>}

\* the values of the image_urls field: a list or a single string
ImageFieldValues ==
    {[t |-> "list", v |-> v] : v \in SeqsUpTo(ImageUrlStrs, MaxImages)} \cup
    {[t |-> "str", v |-> v] : v \in ImageUrlStrs}

\* the values of the fallback field image_url
ImageFallbackValues ==
    {[t |-> "list", v |-> <<<<"h", ":", "/", "/", "1">>>>],
     [t |-> "list", v |-> <<<<"h">>, <<"h", ":", "/", "/", "h">>, <<"h", ":", "/", "/", "h">>>>],
     [t |-> "str", v |-> <<"h", ":", "/", "/", "h">>]}

ImageInputs ==
    {OptField(hasUrls, "image_urls", urls) @@ OptField(hasUrl, "image_url", url) :
        hasUrls \in BOOLEAN, hasUrl \in BOOLEAN,
        urls \in ImageFieldValues, url \in ImageFallbackValues}

CallProcessProduct ==
    /\ dd_op = "process_product" /\ ~dd_out.done
    /\ dd_out' = Returned(process_product(dd_in, "castorama"))
    /\ UNCHANGED <<dd_in, dd_op, data_processor, fileVars, omVars, parVars, runVars>>

\* the raw image list of the call: image_urls, or image_url when image_urls is
\* missing or empty; a single string counts as a list of one
RawImageList ==
    LET raw == IF "image_urls" \in DOMAIN dd_in /\ dd_in.image_urls.v # <<>>
               THEN dd_in.image_urls
               ELSE IF "image_url" \in DOMAIN dd_in THEN dd_in.image_url
               ELSE [t |-> "list", v |-> <<>>]
    IN  IF raw.t = "str" THEN <<raw.v>> ELSE raw.v

\* the positions of a list that hold the first occurrence of a valid URL
FirstValidPositions(raw) ==
    {i \in 1..Len(raw) : validate_url(raw[i]) /\ \A j \in 1..(i - 1) : raw[j] # raw[i]}

\* C22: the image_urls of the product process_product returns has no duplicate and
\* no invalid URL, and is the list of the first occurrences of the valid URLs of
\* the raw image list, in input order.
C22_ImageUrlsValidUnique ==
    (dd_op = "process_product" /\ dd_out.done) =>
        LET images == dd_out.value.image_urls
            kept == FirstValidPositions(RawImageList)
        IN  /\ \A i, j \in 1..Len(images) : images[i] = images[j] => i = j
            /\ \A i \in 1..Len(images) : validate_url(images[i])
            /\ Len(images) = Cardinality(kept)
            /\ \A n \in 1..Len(images) :
                  \E i \in kept : /\ Cardinality({j \in kept : j < i}) = n - 1
                                  /\ images[n] = RawImageList[i]

\* a raw list with an invalid URL and a repeated valid one, of which one is kept
W_C22_InvalidAndDuplicateDropped ==
    /\ dd_op = "process_product" /\ dd_out.done
    /\ Len(RawImageList) = 3
    /\ \E i, j \in 1..3 : i # j /\ RawImageList[i] = RawImageList[j] /\ validate_url(RawImageList[i])
    /\ \E i \in 1..3 : ~validate_url(RawImageList[i])
    /\ Len(dd_out.value.image_urls) = 1

InitFn ==
    /\ \/ dd_op = "generate_product_id" /\ dd_in \in IdInputs
       \/ dd_op = "normalize_price" /\ dd_in \in PriceInputs
       \/ dd_op = "normalize_brand" /\ dd_in \in BrandInputs
       \/ dd_op = "determine_availability" /\ dd_in \in AvailabilityInputs
       \/ dd_op = "process_product" /\ dd_in \in ImageInputs
    /\ dd_out = NotCalled
    /\ data_processor = DataProcessorInit(PyNone)
    /\ FilesIdle /\ OMIdle /\ ParIdle /\ RunIdle

NextFn ==
    \/ CallGenerateProductId
    \/ CallNormalizePrice
    \/ CallNormalizeBrand
    \/ CallDetermineAvailability
    \/ CallProcessProduct

SpecFn == InitFn /\ [][NextFn]_vars

(***************************************************************************)
(* SpecApi: src/api/server.py, one GET request against a loaded dataset.   *)
(* The request is dd_in, the response dd_out.                              *)
(***************************************************************************)
\* the longest dataset of a request
MaxProducts == 2

\* limit: int = Query(100, ...)
DefaultLimit == 100

\* seq[start:stop]
SliceIndex(i, n) == IF i < 0 THEN (IF n + i < 0 THEN 0 ELSE n + i)
                    ELSE IF i > n THEN n ELSE i

PySlice(seq, start, stop) ==
    LET lo == SliceIndex(start, Len(seq))
        hi == SliceIndex(stop, Len(seq))
    IN  IF lo >= hi THEN <<>> ELSE SubSeq(seq, lo + 1, hi)

\* [p for p in products if p.get(key) == value]
FilterEq(products, key, value) ==
    LET Test(p) == key \in DOMAIN p /\ p[key] = value
    IN  SelectSeq(products, Test)

DigitOrder == <<"0", "1", "2", "3", "4", "5", "6", "7", "8", "9">>

CharCode(c) == CHOOSE i \in 1..Len(DigitOrder) : DigitOrder[i] = c

\* a < b on str
RECURSIVE StrLess(_, _)
StrLess(a, b) ==
    IF a = <<>> THEN b # <<>>
    ELSE IF b = <<>> THEN FALSE
    ELSE IF a[1] = b[1] THEN StrLess(Tail(a), Tail(b))
    ELSE CharCode(a[1]) < CharCode(b[1])

\* max(timestamps) of a non-empty list
RECURSIVE MaxStr(_)
MaxStr(strs) ==
    IF Len(strs) = 1 THEN strs[1]
    ELSE LET rest == MaxStr(Tail(strs))
         IN  IF StrLess(strs[1], rest) THEN rest ELSE strs[1]

\* counts of product.get(key, 'unknown') over the products
CountBy(products, key) ==
    LET names == {Get(products[i], key, "unknown") : i \in 1..Len(products)}
    IN  [n \in names |->
            Cardinality({i \in 1..Len(products) : Get(products[i], key, "unknown") = n})]

UnknownStamp == <<"U", "n", "k", "n", "o", "w", "n">>

\* [p.get('timestamp', '') for p in products if p.get('timestamp')], then max
last_updated_of(products) ==
    LET Truthy(p) == Get(p, "timestamp", <<>>) # <<>>
        stamped == SelectSeq(products, Truthy)
        timestamps == [i \in 1..Len(stamped) |-> stamped[i].timestamp]
    IN  IF timestamps = <<>> THEN UnknownStamp ELSE MaxStr(timestamps)

Ok(handler, body) == [handler |-> handler, status |-> 200, body |-> body]

NotFound(handler) == [handler |-> handler, status |-> 404, body |-> <<>>]

\* GET /materials
get_materials(products, supplier, category, limit, offset) ==
    LET by_supplier_ == IF supplier # "" THEN FilterEq(products, "supplier", supplier)
                        ELSE products
        by_category == IF category # "" THEN FilterEq(by_supplier_, "category", category)
                       ELSE by_supplier_
    IN  Ok("get_materials", PySlice(by_category, offset, offset + limit))

\* GET /materials/{category}
get_materials_by_category(products, category, supplier, limit, offset) ==
    LET in_category == FilterEq(products, "category", category)
        by_supplier_ == IF supplier # "" THEN FilterEq(in_category, "supplier", supplier)
                        ELSE in_category
        page == PySlice(by_supplier_, offset, offset + limit)
    IN  IF page = <<>> THEN NotFound("get_materials_by_category")
        ELSE Ok("get_materials_by_category", page)

\* GET /materials/stats
get_stats(products) ==
    Ok("get_stats", [total_products |-> Len(products),
                     suppliers      |-> CountBy(products, "supplier"),
                     categories     |-> CountBy(products, "category"),
                     last_updated   |-> last_updated_of(products)])

Lit(s) == [lit |-> TRUE, s |-> s]
Param(s) == [lit |-> FALSE, s |-> s]

\* the routes under /materials in the order _setup_routes registers them
Routes ==
    << [pattern |-> <<Lit("materials")>>,                        handler |-> "get_materials"],
       [pattern |-> <<Lit("materials"), Param("category")>>,     handler |-> "get_materials_by_category"],
       [pattern |-> <<Lit("materials"), Lit("search"), Param("query")>>,
                                                                 handler |-> "search_materials"],
       [pattern |-> <<Lit("materials"), Lit("stats")>>,          handler |-> "get_stats"] >>

\* a path matches a pattern segment by segment; a parameter matches any segment
Matches(pattern, path) ==
    /\ Len(pattern) = Len(path)
    /\ \A i \in 1..Len(pattern) : pattern[i].lit => pattern[i].s = path[i]

\* the router serves a request with the first route that matches
Dispatch(path) ==
    LET hits == {i \in 1..Len(Routes) : Matches(Routes[i].pattern, path)}
    IN  IF hits = {} THEN "none"
        ELSE Routes[CHOOSE i \in hits : \A j \in hits : i <= j].handler

\* the response to a request (requests to the search route are not among ApiRequests)
Respond(req) ==
    LET handler == Dispatch(req.path) IN
    CASE handler = "get_materials" ->
             get_materials(req.products, req.supplier, req.category, req.limit, req.offset)
      [] handler = "get_materials_by_category" ->
             get_materials_by_category(req.products, req.path[2], req.supplier,
                                       req.limit, req.offset)
      [] handler = "get_stats" -> get_stats(req.products)
      [] handler = "none" -> NotFound("none")

\* products of the dataset file (the fields the handlers read)
ApiProducts ==
    { [supplier |-> "castorama",   category |-> "Peinture", timestamp |-> <<"2">>],
      [supplier |-> "manomano",    category |-> "Peinture", timestamp |-> <<"1", "0">>],
      [supplier |-> "castorama",   category |-> "Douches",  timestamp |-> <<"1">>],
      [supplier |-> "manomano",    category |-> "stats",    timestamp |-> <<>>],
      [supplier |-> "leroymerlin", category |-> "Douches",  timestamp |-> <<"2">>] }

ApiPaths == { <<"materials">>, <<"materials", "Peinture">>, <<"materials", "Douches">>,
              <<"materials", "stats">>, <<"materiaux">> }

\* a missing query parameter (None) is "": both are falsy in the handlers
ApiRequests ==
    [products : SeqsUpTo(ApiProducts, MaxProducts),
     path     : ApiPaths,
     supplier : {"", "castorama", "manomano"},
     category : {"", "Peinture"},
     limit    : {0, 1, DefaultLimit},
     offset   : {0, 1}]

InitApi ==
    /\ dd_op = "request" /\ dd_in \in ApiRequests /\ dd_out = NotCalled
    /\ data_processor = DataProcessorInit(PyNone)
    /\ FilesIdle /\ OMIdle /\ ParIdle /\ RunIdle

HandleRequest ==
    /\ dd_op = "request" /\ ~dd_out.done
    /\ dd_out' = Returned(Respond(dd_in))
    /\ UNCHANGED <<dd_in, dd_op, data_processor, fileVars, omVars, parVars, runVars>>

NextApi == HandleRequest

SpecApi == InitApi /\ [][NextApi]_vars

\* ---- properties over SpecApi

CategoryRequest ==
    /\ dd_out.done /\ Len(dd_in.path) = 2 /\ dd_in.path[1] = "materials"
    /\ dd_in.path[2] # "stats"

\* the products of the requested category, then of the requested supplier
Selected ==
    LET in_category == FilterEq(dd_in.products, "category", dd_in.path[2])
    IN  IF dd_in.supplier # "" THEN FilterEq(in_category, "supplier", dd_in.supplier)
        ELSE in_category

\* C24: GET /materials/{category} answers 404 exactly when no product of the
\* dataset has the category; otherwise it answers 200 with the offset/limit window
\* of the products left by the category and supplier filters, which may be empty.
C24_NotFoundOnlyForUnknownCategory ==
    CategoryRequest =>
        IF FilterEq(dd_in.products, "category", dd_in.path[2]) = <<>>
        THEN dd_out.value.status = 404
        ELSE /\ dd_out.value.status = 200
             /\ dd_out.value.body =
                    PySlice(Selected, dd_in.offset, dd_in.offset + dd_in.limit)

\* C30: a request for /materials/stats is handled by get_stats and returns the
\* number of products, the counts by supplier and by category and the greatest
\* timestamp of the dataset.
C30_StatsReachable ==
    (dd_out.done /\ dd_in.path = <<"materials", "stats">>) =>
        /\ dd_out.value.handler = "get_stats"
        /\ dd_out.value = get_stats(dd_in.products)

(***************************************************************************)
(* SpecStartup: DonizoMaterialScraper(config_path) of src/scraper.py.      *)
(* The configuration file and the output directories are dd_in, the        *)
(* outcome of the constructor dd_out.                                      *)
(***************************************************************************)
OutputDirs == {"output/data", "output/logs", "output/reports"}

\* the attributes of self assigned before line 34 calls _load_config
AttrsBeforeLoadConfig == {}

\* _load_config: the returned configuration, or the exception that leaves it.
\* Every path reads self.main_logger, in the try block or in an except clause.
load_config(file, config, attrs) ==
    IF "main_logger" \notin attrs
    THEN [raised |-> "AttributeError", config |-> PyNone]
    ELSE IF file = "ok" THEN [raised |-> "none", config |-> config]
    ELSE [raised |-> "SystemExit", config |-> PyNone]

\* DonizoMaterialScraper.__init__
construct_orchestrator(file, config, dirs) ==
    LET loaded == load_config(file, config, AttrsBeforeLoadConfig) IN
    IF loaded.raised # "none"
    THEN [outcome |-> loaded.raised, stats |-> EmptyDict, dirs |-> dirs,
          data_processor |-> EmptyDict]
    ELSE [outcome |-> "constructed", stats |-> InitialStats, dirs |-> dirs \cup OutputDirs,
          data_processor |-> DataProcessorInit(loaded.config)]

\* what yaml.safe_load returns for a well-formed file (None for an empty one)
StartupConfigs ==
    {PyNone, PyDict(EmptyDict)} \cup
    { PyDict([data_processing |->
                 OptField(pc # "", "price_currency", pc) @@
                 OptField(mu # "", "measurement_unit", mu)]) :
      pc \in {"", "EUR", "USD"}, mu \in {"", "cm", "mm"} }

\* the file at config_path: well-formed with its content, missing, or not YAML
StartupFiles ==
    [file : {"ok"}, config : StartupConfigs] \cup
    [file : {"missing", "malformed"}, config : {PyNone}]

\* output/logs exists since the module-level get_logger("main")
StartupInputs ==
    { [config_path |-> path, file |-> f.file, config |-> f.config, dirs |-> dirs] :
      path \in {"config/scraper_config.yaml", "custom.yaml"},
      f \in StartupFiles,
      dirs \in {d \in SUBSET OutputDirs : "output/logs" \in d} }

InitStartup ==
    /\ dd_op = "construct" /\ dd_in \in StartupInputs /\ dd_out = NotCalled
    /\ data_processor = DataProcessorInit(PyNone)
    /\ FilesIdle /\ OMIdle /\ ParIdle /\ RunIdle

ConstructOrchestrator ==
    /\ dd_op = "construct" /\ ~dd_out.done
    /\ dd_out' = Returned(construct_orchestrator(dd_in.file, dd_in.config, dd_in.dirs))
    /\ UNCHANGED <<dd_in, dd_op, data_processor, fileVars, omVars, parVars, runVars>>

NextStartup == ConstructOrchestrator

SpecStartup == InitStartup /\ [][NextStartup]_vars

\* ---- properties over SpecStartup

\* C29: with a readable, well-formed configuration file the constructor succeeds
\* with stats of total_products 0 and empty suppliers, categories and errors; with
\* a missing or unparsable file, and only then, it exits the process.
C29_StartupContract ==
    dd_out.done =>
        IF dd_in.file = "ok"
        THEN /\ dd_out.value.outcome = "constructed"
             /\ dd_out.value.stats.total_products = 0
             /\ dd_out.value.stats.suppliers = EmptyDict
             /\ dd_out.value.stats.categories = EmptyDict
             /\ dd_out.value.stats.errors = <<>>
        ELSE dd_out.value.outcome = "SystemExit"

====
